---------------------------- MODULE Spec2Model ----------------------------
(***************************************************************************)
(* Workflow normalization, layout and mutation engine.                     *)
(*                                                                         *)
(* The module holds one state machine per component:                       *)
(*   SpecLayout    the intrinsic layout engine (lib/workflow-layout.ts):   *)
(*                 layering by depth-first search, barycenter ordering,    *)
(*                 positioning;                                            *)
(*   SpecMutation  the mutation engine (applyMutation) under the workflow  *)
(*                 provider's applyMutations, on a heap of objects;        *)
(*   SpecNormalize the normalizer (normalizeWorkflow): format detection,   *)
(*                 the format parsers, validation, layout and the result   *)
(*                 envelope, fed with contents or with an exported model.  *)
(* Each specification moves only its own variables; the others rest.       *)
(***************************************************************************)
EXTENDS Integers, Sequences, FiniteSets, TLC

(***************************************************************************)
(* Bounds of the model.                                                    *)
(***************************************************************************)
MaxNodes == 4
MaxTrans == 3

(***************************************************************************)
(* Generic helpers.                                                        *)
(***************************************************************************)
\* Variant: the layer of the predecessor seen last replaces the running maximum
MaxTakesLatest(a, b) == b

Max(a, b) == IF a >= b THEN a ELSE b

Range(s) == {s[i] : i \in 1..Len(s)}

SeqMap(Op(_), s) == [i \in 1..Len(s) |-> Op(s[i])]

Indices(s) == 1..Len(s)

RECURSIVE SeqsUpTo(_, _)
SeqsUpTo(S, n) == IF n = 0 THEN {<<>>}
                  ELSE LET shorter == SeqsUpTo(S, n - 1)
                       IN  shorter \cup {Append(s, x) : s \in {t \in shorter : Len(t) = n - 1}, x \in S}

(***************************************************************************)
(* Node identifiers are strings; the pool names the ones the model draws.  *)
(***************************************************************************)
IdPool == <<"n1", "n2", "n3", "n4", "n5", "n6">>

NodeIds == {IdPool[i] : i \in 1..MaxNodes}

Origin == [x |-> 0, y |-> 0]

(***************************************************************************)
(* DEFAULT_OPTIONS of the layout engine.                                   *)
(***************************************************************************)
nodeWidth == 150
nodeHeight == 50
horizontalGap == 80
verticalGap == 100
marginX == 50
marginY == 50
centerX == 400
centerY == 300
SweepPasses == 4

VARIABLES
  lpc,            \* position of applyLayout: "run" until it returns, then "done"
  lnodes,         \* the node array handed to applyLayout (positions written in place)
  ltrans,         \* the transition array handed to applyLayout
  ldir,           \* opts.direction: "TB" or "LR", "" until assignPositions reads it
  outgoing,       \* Map nodeId -> targets, built by applyLayout
  incoming,       \* Map nodeId -> sources, built by applyLayout
  roots,          \* the ids the root loops of assignLayers go through
  nodeLayer,      \* Map nodeId -> layer, as a function on the ids set so far
  layerOrder,     \* insertion order of nodeLayer's keys
  visited,        \* Set of visited ids
  inProgress,     \* Set of ids whose dfs call is on the stack
  stack,          \* the dfs call stack, innermost call last
  rootIdx,        \* position in the two root loops of assignLayers
  orderedLayers,  \* result of orderNodesInLayers
  setCount,       \* history: how many times nodeLayer.set ran for each id
  steps           \* history: number of dfs loop steps taken

layoutVars == <<lpc, lnodes, ltrans, ldir, outgoing, incoming, roots, nodeLayer, layerOrder, visited,
                inProgress, stack, rootIdx, orderedLayers, setCount, steps>>

VARIABLES
  heap,           \* the JavaScript objects alive: a sequence of cells, an address is an index
  workflow,       \* the provider's state: address of a process object, or Null
  mpc,            \* position of the applyMutations updater: "idle", "loop", "returned"
  mutations,      \* the array handed to applyMutations
  mi,             \* position of the for-of loop in mutations
  updated,        \* the updater's local variable updated
  hadWorkflow,    \* history: whether current was non-null when the updater was entered
  roundStart,     \* history: the value of current when the updater was entered
  gens,           \* history: the id generateId would return in each applyMutation call
  argRef,         \* history: the argument of the last applyMutation call
  argBefore,      \* history: the value of that argument when the call was made
  rounds          \* history: number of applyMutations calls since the workflow was set or cleared

mutationVars == <<heap, workflow, mpc, mutations, mi, updated, hadWorkflow, roundStart, gens, argRef,
                  argBefore, rounds>>

VARIABLES
  npc,            \* position of normalizeWorkflow: "export", "start", "switch", "validate",
                  \* "layout", "done", and "rejected" for a rejected promise
  ncontent,       \* the content handed to normalizeWorkflow
  nhint,          \* formatHint, Undefined when absent
  ndom,           \* whether the environment has a DOMParser
  nformat,        \* the local constant format
  nworkflow,      \* the local variable workflow
  nwarnings,      \* the local array warnings
  nresult,        \* the NormalizationResult returned
  nparsed,        \* history: the model the parser returned
  nreturned,      \* history: whether a parser returned a model
  nthrew,         \* history: whether a parser threw
  nsource,        \* history: "export" when the content is an export of uworkflow
  uworkflow       \* the uploader's workflow the export handler serializes

normalizeVars == <<npc, ncontent, nhint, ndom, nformat, nworkflow, nwarnings, nresult, nparsed, nreturned,
                   nthrew, nsource, uworkflow>>

VARIABLES
  xpc,            \* position of parseXamlWorkflow: "start", "walk", "done"
  xdoc,           \* the parsed document: its State elements and its initial state element
  states,         \* the array extractStates returned
  initialRefId,   \* x:Name of the initial state element, "" without one
  xnodes,         \* the local array nodes
  xtransitions,   \* the local array transitions
  processedNodes, \* Set of processed reference ids
  transitionId,   \* the counter behind the transition ids
  xstack,         \* the processState calls under way, innermost last
  restIdx,        \* position of the loop over the remaining states
  xresult,        \* the BusinessProcess returned
  xcalls,         \* history: how many times processState got past its guard, per reference id
  xsteps          \* history: number of loop steps taken

xamlVars == <<xpc, xdoc, states, initialRefId, xnodes, xtransitions, processedNodes, transitionId,
              xstack, restIdx, xresult, xcalls, xsteps>>

VARIABLES
  vaultState,     \* the vault store's state: currentModuleId and modules
  stored,         \* what localStorage holds under the vault's key: <<>> or one saved state
  generated,      \* how many module ids generateId has given out
  clock,          \* what new Date() reads: the number of calls made so far
  vcall,          \* history: the last call made on the store
  vbefore,        \* history: vaultState as it was when that call was made
  vthrew,         \* history: whether that call threw
  upsertOnly      \* history: ids of the modules created empty and changed by add and remove only

vaultVars == <<vaultState, stored, generated, clock, vcall, vbefore, vthrew, upsertOnly>>

VARIABLES
  isLoading,      \* the uploader's state isLoading
  error,          \* the uploader's state error, NullString or a message
  fileName,       \* the uploader's state fileName, NullString or a name
  shown,          \* the uploader's state workflow: <<>> for null, or one process
  uploads         \* the handleFileUpload calls made: file and position of each

uploadVars == <<isLoading, error, fileName, shown, uploads>>

vars == <<layoutVars, mutationVars, normalizeVars, xamlVars, vaultVars, uploadVars>>

otherThanLayout == <<mutationVars, normalizeVars, xamlVars, vaultVars, uploadVars>>

otherThanMutation == <<layoutVars, normalizeVars, xamlVars, vaultVars, uploadVars>>

otherThanNormalize == <<layoutVars, mutationVars, xamlVars, vaultVars, uploadVars>>

otherThanXaml == <<layoutVars, mutationVars, normalizeVars, vaultVars, uploadVars>>

otherThanVault == <<layoutVars, mutationVars, normalizeVars, xamlVars, uploadVars>>

otherThanUpload == <<layoutVars, mutationVars, normalizeVars, xamlVars, vaultVars>>

(***************************************************************************)
(* null and undefined of the program, and each component at rest.          *)
(***************************************************************************)
Null == 0

Undefined == "<undefined>"

LayoutAtRest ==
  /\ lpc = "idle"
  /\ lnodes = <<>>
  /\ ltrans = <<>>
  /\ ldir = ""
  /\ outgoing = <<>>
  /\ incoming = <<>>
  /\ roots = <<>>
  /\ nodeLayer = <<>>
  /\ layerOrder = <<>>
  /\ visited = {}
  /\ inProgress = {}
  /\ stack = <<>>
  /\ rootIdx = 0
  /\ orderedLayers = <<>>
  /\ setCount = <<>>
  /\ steps = 0

XamlAtRest ==
  /\ xpc = "idle"
  /\ xdoc = <<>>
  /\ states = <<>>
  /\ initialRefId = ""
  /\ xnodes = <<>>
  /\ xtransitions = <<>>
  /\ processedNodes = {}
  /\ transitionId = 0
  /\ xstack = <<>>
  /\ restIdx = 0
  /\ xresult = <<>>
  /\ xcalls = <<>>
  /\ xsteps = 0

\* null where the other values are strings
NullString == "<null>"

NoCall == [op |-> "none"]

VaultAtRest ==
  /\ vaultState = <<>>
  /\ stored = <<>>
  /\ generated = 0
  /\ clock = 0
  /\ vcall = NoCall
  /\ vbefore = <<>>
  /\ vthrew = FALSE
  /\ upsertOnly = {}

UploadAtRest ==
  /\ isLoading = FALSE
  /\ error = NullString
  /\ fileName = NullString
  /\ shown = <<>>
  /\ uploads = <<>>

NormalizeAtRest ==
  /\ npc = "idle"
  /\ ncontent = <<>>
  /\ nhint = ""
  /\ ndom = FALSE
  /\ nformat = ""
  /\ nworkflow = <<>>
  /\ nwarnings = <<>>
  /\ nresult = <<>>
  /\ nparsed = <<>>
  /\ nreturned = FALSE
  /\ nthrew = FALSE
  /\ nsource = ""
  /\ uworkflow = <<>>

MutationAtRest ==
  /\ heap = <<>>
  /\ workflow = Null
  /\ mpc = "idle"
  /\ mutations = <<>>
  /\ mi = 0
  /\ updated = Null
  /\ hadWorkflow = FALSE
  /\ roundStart = <<>>
  /\ gens = <<>>
  /\ argRef = Null
  /\ argBefore = <<>>
  /\ rounds = 0

-----------------------------------------------------------------------------
(***************************************************************************)
(* Layout engine: adjacency lists (applyLayout).                           *)
(***************************************************************************)
NodeIdsOf(nodes) == {nodes[i].id : i \in 1..Len(nodes)}

\* outgoing.get(id): targets of the transitions leaving id, both ends declared
Outgoing(nodes, trans, id) ==
  LET ok(t) == t.from \in NodeIdsOf(nodes) /\ t.to \in NodeIdsOf(nodes) /\ t.from = id
      sel == SelectSeq(trans, ok)
  IN  [i \in 1..Len(sel) |-> sel[i].to]

\* the Map outgoing
OutgoingMap(nodes, trans) == [id \in NodeIdsOf(nodes) |-> Outgoing(nodes, trans, id)]

\* incoming.get(id): sources of the transitions entering id, both ends declared
Incoming(nodes, trans, id) ==
  LET ok(t) == t.from \in NodeIdsOf(nodes) /\ t.to \in NodeIdsOf(nodes) /\ t.to = id
      sel == SelectSeq(trans, ok)
  IN  [i \in 1..Len(sel) |-> sel[i].from]

\* the Map incoming
IncomingMap(nodes, trans) == [id \in NodeIdsOf(nodes) |-> Incoming(nodes, trans, id)]

\* startNodes: nodes typed start or without incoming edge; else the first node
StartNodes(nodes, trans) ==
  LET isStart(n) == n.type = "start" \/ Len(Incoming(nodes, trans, n.id)) = 0
      found == SelectSeq(nodes, isStart)
  IN  IF Len(found) = 0 /\ Len(nodes) > 0 THEN <<nodes[1]>> ELSE found

\* The ids the two root loops of assignLayers go through: the start nodes,
\* then every node (the second loop skips the visited ones).
RootsStartOnly(nodes, trans) ==
  LET idOf(n) == n.id
  IN  SeqMap(idOf, StartNodes(nodes, trans))

Roots(nodes, trans) ==
  LET idOf(n) == n.id
  IN  SeqMap(idOf, StartNodes(nodes, trans)) \o SeqMap(idOf, nodes)

\* new Map(nodes.map(n => [n.id, n])): a later node with the same id replaces
\* the earlier one, so the map holds the last node of each id
NodeMapIndex(nodes, id) ==
  CHOOSE i \in 1..Len(nodes) :
    nodes[i].id = id /\ \A j \in (i + 1)..Len(nodes) : nodes[j].id # id

-----------------------------------------------------------------------------
(***************************************************************************)
(* Layout engine, step 1: assignLayers.  The recursion of dfs is kept as   *)
(* an explicit call stack; a frame is one running call of dfs.             *)
(***************************************************************************)
EmptyLayerMap == [id \in {} |-> 0]

\* a fresh call of dfs(nodeId, minLayer) on entering its loop (lines 105-111)
NewFrame(nodeId, minLayer) ==
  [node |-> nodeId, minLayer |-> minLayer, maxChildLayer |-> minLayer - 1, i |-> 1]

\* inProgress.add(nodeId)
MarkInProgressForgotten(S, nodeId) == S
MarkInProgress(S, nodeId) == S \cup {nodeId}

\* nodeLayer.set(nodeId, layer)
SetLayer(map, nodeId, layer) ==
  [id \in DOMAIN map \cup {nodeId} |-> IF id = nodeId THEN layer ELSE map[id]]

\* The two early returns of dfs (lines 96-103): a call on a node that has its
\* layer returns it, a call on a node in progress returns minLayer.
DfsEntry(nodeId, minLayer) ==
  IF nodeId \in DOMAIN nodeLayer
    THEN [returns |-> TRUE, value |-> nodeLayer[nodeId]]
    ELSE IF nodeId \in inProgress
           THEN [returns |-> TRUE, value |-> minLayer]
           ELSE [returns |-> FALSE, value |-> 0]

\* applyLayout on an empty node array returns at once (line 39)
ApplyLayoutEmpty ==
  /\ lpc = "run"
  /\ Len(lnodes) = 0
  /\ lpc' = "done"
  /\ UNCHANGED otherThanLayout
  /\ UNCHANGED <<lnodes, ltrans, ldir, outgoing, incoming, roots, nodeLayer, layerOrder, visited, inProgress,
                 stack, rootIdx, orderedLayers, setCount, steps>>

\* One iteration of the root loops (lines 127-136): dfs(startNode.id, 0) for
\* each start node, then dfs(node.id, 0) for each node not visited.
LayerRootReady ==
  /\ lpc = "run"
  /\ Len(lnodes) > 0
  /\ stack = <<>>
  /\ rootIdx <= Len(roots)

LayerRoot ==
  /\ LayerRootReady
  /\ LET id == roots[rootIdx]
         second == rootIdx > Len(roots) - Len(lnodes)
     IN  IF (second /\ id \in visited) \/ DfsEntry(id, 0).returns
           THEN UNCHANGED <<stack, visited, inProgress>>
           ELSE /\ stack' = <<NewFrame(id, 0)>>
                /\ inProgress' = MarkInProgress(inProgress, id)
                /\ visited' = visited \cup {id}
  /\ rootIdx' = rootIdx + 1
  /\ steps' = steps + 1
  /\ UNCHANGED otherThanLayout
  /\ UNCHANGED <<lpc, lnodes, ltrans, ldir, outgoing, incoming, roots, nodeLayer, layerOrder, orderedLayers, setCount>>

\* One iteration of the predecessor loop of the innermost call (lines 112-117)
DfsVisitPredReady ==
  /\ lpc = "run"
  /\ stack # <<>>
  /\ stack[Len(stack)].i <= Len(incoming[stack[Len(stack)].node])

DfsVisitPred ==
  /\ DfsVisitPredReady
  /\ LET top == Len(stack)
         f == stack[top]
         pred == incoming[f.node][f.i]
         entry == DfsEntry(pred, 0)
     IN  IF pred \in inProgress
           THEN /\ stack' = [stack EXCEPT ![top].i = @ + 1]
                /\ UNCHANGED <<visited, inProgress>>
           ELSE IF entry.returns
                  THEN /\ stack' = [stack EXCEPT
                                      ![top].maxChildLayer = Max(@, entry.value),
                                      ![top].i = @ + 1]
                       /\ UNCHANGED <<visited, inProgress>>
                  ELSE /\ stack' = Append(stack, NewFrame(pred, 0))
                       /\ inProgress' = MarkInProgress(inProgress, pred)
                       /\ visited' = visited \cup {pred}
  /\ steps' = steps + 1
  /\ UNCHANGED otherThanLayout
  /\ UNCHANGED <<lpc, lnodes, ltrans, ldir, outgoing, incoming, roots, nodeLayer, layerOrder, rootIdx,
                 orderedLayers, setCount>>

\* The innermost call has seen all its predecessors (lines 119-123): it sets
\* its layer and returns it to its caller, which takes the maximum.
DfsReturnReady ==
  /\ lpc = "run"
  /\ stack # <<>>
  /\ stack[Len(stack)].i > Len(incoming[stack[Len(stack)].node])

DfsReturn ==
  /\ DfsReturnReady
  /\ LET top == Len(stack)
         f == stack[top]
         layer == f.maxChildLayer + 1
     IN  /\ nodeLayer' = SetLayer(nodeLayer, f.node, layer)
         /\ layerOrder' = IF f.node \in DOMAIN nodeLayer THEN layerOrder
                          ELSE Append(layerOrder, f.node)
         /\ setCount' = [setCount EXCEPT ![f.node] = @ + 1]
         /\ inProgress' = inProgress \ {f.node}
         /\ stack' = IF top = 1 THEN <<>>
                     ELSE [SubSeq(stack, 1, top - 1) EXCEPT
                             ![top - 1].maxChildLayer = Max(@, layer),
                             ![top - 1].i = @ + 1]
  /\ steps' = steps + 1
  /\ UNCHANGED otherThanLayout
  /\ UNCHANGED <<lpc, lnodes, ltrans, ldir, outgoing, incoming, roots, visited, rootIdx, orderedLayers>>

\* Group nodes by layer (lines 139-148): Map iteration is insertion order,
\* empty layers are dropped.
GroupByLayer(map, order) ==
  LET vals == {map[id] : id \in DOMAIN map}
      maxLayer == IF vals = {} THEN 0 ELSE CHOOSE m \in vals : \A v \in vals : v <= m
      inLayer(l) == LET at(id) == map[id] = l IN SelectSeq(order, at)
      all == [l \in 1..(maxLayer + 1) |-> inLayer(l - 1)]
      nonEmpty(layer) == Len(layer) > 0
  IN  SelectSeq(all, nonEmpty)

-----------------------------------------------------------------------------
(***************************************************************************)
(* Layout engine, step 2: orderNodesInLayers.  A barycenter is kept as the *)
(* pair (sum, count); count = 0 stands for Infinity.                       *)
(***************************************************************************)
RECURSIVE SumSeq(_)
SumSeq(s) == IF Len(s) = 0 THEN 0 ELSE s[1] + SumSeq(Tail(s))

RECURSIVE SumSet(_, _)
SumSet(f, S) == IF S = {} THEN 0
                ELSE LET x == CHOOSE y \in S : TRUE IN f[x] + SumSet(f, S \ {x})

\* refPositions: the 0-based index of every id of the reference layer
RefPositions(refLayer) ==
  [id \in Range(refLayer) |-> (CHOOSE i \in 1..Len(refLayer) : refLayer[i] = id) - 1]

\* The barycenter of nodeId against refLayer (lines 196-227).  Downwards the
\* predecessors are the keys of outgoing whose targets include nodeId, each
\* once; upwards the successors are outgoing.get(nodeId), one per transition.
Barycenter(out, nodeId, refLayer, direction) ==
  LET refPos == RefPositions(refLayer)
  IN  IF direction = "down"
        THEN LET preds == {p \in DOMAIN out : nodeId \in Range(out[p])}
                 hit == preds \cap DOMAIN refPos
             IN  [nodeId |-> nodeId, sum |-> SumSet(refPos, hit), count |-> Cardinality(hit)]
        ELSE LET inRef(id) == id \in DOMAIN refPos
                 succ == SelectSeq(out[nodeId], inRef)
             IN  [nodeId |-> nodeId,
                  sum |-> SumSeq([i \in 1..Len(succ) |-> refPos[succ[i]]]),
                  count |-> Len(succ)]

\* Variant: a node without measured neighbour counts as the smallest
BaryLessMissingFirst(a, b) ==
  /\ b.count > 0
  /\ (a.count = 0 \/ a.sum * b.count < b.sum * a.count)

\* a.barycenter - b.barycenter < 0, with sum / count, or Infinity when count = 0
BaryLess(a, b) ==
  /\ a.count > 0
  /\ (b.count = 0 \/ a.sum * b.count < b.sum * a.count)

\* Array.prototype.sort is stable: an element goes before the first element it
\* is strictly less than, after every element it compares equal to.
RECURSIVE StableInsert(_, _)
StableInsert(sorted, x) ==
  IF Len(sorted) = 0 THEN <<x>>
  ELSE IF BaryLess(x, sorted[1]) THEN <<x>> \o sorted
  ELSE <<sorted[1]>> \o StableInsert(Tail(sorted), x)

RECURSIVE StableSort(_)
StableSort(s) ==
  IF Len(s) = 0 THEN <<>>
  ELSE StableInsert(StableSort(SubSeq(s, 1, Len(s) - 1)), s[Len(s)])

\* orderLayerByBarycenter; layerIndex counts from 1 here
OrderLayerByBarycenter(layers, layerIndex, out, direction) ==
  LET refIndex == IF direction = "down" THEN layerIndex - 1 ELSE layerIndex + 1
  IN  IF refIndex < 1 \/ refIndex > Len(layers) THEN layers
      ELSE IF Len(layers[refIndex]) = 0 THEN layers
      ELSE LET layer == layers[layerIndex]
               barycenters == [k \in 1..Len(layer) |->
                                 Barycenter(out, layer[k], layers[refIndex], direction)]
               sorted == StableSort(barycenters)
           IN  [layers EXCEPT ![layerIndex] = [k \in 1..Len(sorted) |-> sorted[k].nodeId]]

\* Forward pass: layers 2..Len in increasing order, each against the one above
RECURSIVE ForwardPass(_, _, _)
ForwardPass(layers, out, i) ==
  IF i > Len(layers) THEN layers
  ELSE ForwardPass(OrderLayerByBarycenter(layers, i, out, "down"), out, i + 1)

\* Backward pass: layers Len-1..1 in decreasing order, each against the one below
RECURSIVE BackwardPass(_, _, _)
BackwardPass(layers, out, i) ==
  IF i < 1 THEN layers
  ELSE BackwardPass(OrderLayerByBarycenter(layers, i, out, "up"), out, i - 1)

RECURSIVE Sweeps(_, _, _)
Sweeps(layers, out, passes) ==
  IF passes = 0 THEN layers
  ELSE Sweeps(BackwardPass(ForwardPass(layers, out, 2), out, Len(layers) - 1),
              out, passes - 1)

OrderNodesInLayers(layers, out) == Sweeps(layers, out, SweepPasses)

-----------------------------------------------------------------------------
(***************************************************************************)
(* Layout engine, step 3: assignPositions.  layerIndex and nodeIndex count *)
(* from 0 as in the source.                                                *)
(***************************************************************************)
PositionAtOneAxis(direction, layerSize, layerIndex, nodeIndex) ==
  LET totalSpan == (layerSize - 1) * (nodeWidth + horizontalGap)
      layerOffset == nodeIndex * (nodeWidth + horizontalGap) - (totalSpan \div 2)
  IN  [x |-> marginX + layerOffset + centerX,
       y |-> marginY + layerIndex * (nodeHeight + verticalGap)]

\* Variant: the rank inside the layer is dropped, a layer collapses on the axis
PositionAtLayerOnly(direction, layerSize, layerIndex, nodeIndex) ==
  IF direction = "TB"
    THEN [x |-> marginX + centerX,
          y |-> marginY + layerIndex * (nodeHeight + verticalGap)]
    ELSE [x |-> marginX + layerIndex * (nodeWidth + horizontalGap),
          y |-> marginY + centerY]

\* Variant: a layer starts at the margin instead of being centred
PositionAtLeftAligned(direction, layerSize, layerIndex, nodeIndex) ==
  IF direction = "TB"
    THEN [x |-> marginX + nodeIndex * (nodeWidth + horizontalGap) + centerX,
          y |-> marginY + layerIndex * (nodeHeight + verticalGap)]
    ELSE [x |-> marginX + layerIndex * (nodeWidth + horizontalGap),
          y |-> marginY + nodeIndex * (nodeHeight + verticalGap) + centerY]

PositionAt(direction, layerSize, layerIndex, nodeIndex) ==
  IF direction = "TB"
    THEN LET totalSpan == (layerSize - 1) * (nodeWidth + horizontalGap)
             layerOffset == nodeIndex * (nodeWidth + horizontalGap) - (totalSpan \div 2)
         IN  [x |-> marginX + layerOffset + centerX,
              y |-> marginY + layerIndex * (nodeHeight + verticalGap)]
    ELSE LET totalSpan == (layerSize - 1) * (nodeHeight + verticalGap)
             layerOffset == nodeIndex * (nodeHeight + verticalGap) - (totalSpan \div 2)
         IN  [x |-> marginX + layerIndex * (nodeWidth + horizontalGap),
              y |-> marginY + layerOffset + centerY]

\* the places (layer, rank) at which id stands in layers
PlacesOf(layers, id) ==
  {<<l, k>> \in (1..Len(layers)) \X (1..MaxNodes + 1) :
     k <= Len(layers[l]) /\ layers[l][k] = id}

\* Every id listed in layers has its node (the one nodeMap holds) positioned;
\* should an id stand at several places the last one written stays.
AssignPositions(nodes, layers, direction) ==
  [i \in 1..Len(nodes) |->
     LET id == nodes[i].id
         places == PlacesOf(layers, id)
     IN  IF places = {} \/ NodeMapIndex(nodes, id) # i THEN nodes[i]
         ELSE LET last == CHOOSE p \in places :
                            \A q \in places : q[1] < p[1] \/ (q[1] = p[1] /\ q[2] <= p[2])
              IN  [nodes[i] EXCEPT !.position =
                     PositionAt(direction, Len(layers[last[1]]), last[1] - 1, last[2] - 1)]]

\* assignLayers has gone through both root loops
FinishReady ==
  /\ lpc = "run"
  /\ Len(lnodes) > 0
  /\ stack = <<>>
  /\ rootIdx > Len(roots)

\* the rest of applyLayout: group, order, position
FinishLayout ==
  /\ FinishReady
  /\ orderedLayers' = OrderNodesInLayers(GroupByLayer(nodeLayer, layerOrder), outgoing)
  /\ \E direction \in {"TB", "LR"} :
       /\ ldir' = direction
       /\ lnodes' = AssignPositions(lnodes, orderedLayers', direction)
  /\ lpc' = "done"
  /\ UNCHANGED otherThanLayout
  /\ UNCHANGED <<ltrans, outgoing, incoming, roots, nodeLayer, layerOrder, visited, inProgress, stack,
                 rootIdx, setCount, steps>>

(***************************************************************************)
(* Inputs of applyLayout: up to MaxNodes nodes with pairwise distinct ids  *)
(* (the algorithm only compares ids, so the ids are taken in pool order;   *)
(* the transitions range over every order and every pair, which covers     *)
(* every listing order of a graph), each typed start or task, and up to    *)
(* MaxTrans transitions between pool ids, declared or not.  The direction  *)
(* option is drawn when assignPositions reads it.  The initial state is    *)
(* the one in which applyLayout has built its adjacency maps and           *)
(* assignLayers its start nodes.                                           *)
(***************************************************************************)
LayoutNodeLists ==
  UNION { { [i \in 1..k |-> [id |-> IdPool[i], type |-> ty[i], position |-> Origin]] :
              ty \in [1..k -> {"start", "task"}] } : k \in 0..MaxNodes }

TransPairs == {[from |-> a, to |-> b] : a \in NodeIds, b \in NodeIds}

LayoutTransLists == SeqsUpTo(TransPairs, MaxTrans)

InitLayout ==
  /\ MutationAtRest
  /\ NormalizeAtRest
  /\ XamlAtRest
  /\ VaultAtRest
  /\ UploadAtRest
  /\ lpc = "run"
  /\ lnodes \in LayoutNodeLists
  /\ ltrans \in LayoutTransLists
  /\ ldir = ""
  /\ outgoing = OutgoingMap(lnodes, ltrans)
  /\ incoming = IncomingMap(lnodes, ltrans)
  /\ roots = Roots(lnodes, ltrans)
  /\ nodeLayer = EmptyLayerMap
  /\ layerOrder = <<>>
  /\ visited = {}
  /\ inProgress = {}
  /\ stack = <<>>
  /\ rootIdx = 1
  /\ orderedLayers = <<>>
  /\ setCount = [id \in NodeIds |-> 0]
  /\ steps = 0

NextLayout ==
  \/ ApplyLayoutEmpty
  \/ LayerRoot
  \/ DfsVisitPred
  \/ DfsReturn
  \/ FinishLayout

SpecLayout == InitLayout /\ [][NextLayout]_vars

-----------------------------------------------------------------------------
(***************************************************************************)
(* Properties of the layout engine.                                        *)
(***************************************************************************)
ValidTrans(nodes, trans) ==
  LET ok(t) == t.from \in NodeIdsOf(nodes) /\ t.to \in NodeIdsOf(nodes)
  IN  SelectSeq(trans, ok)

(* C1: layering terminates on every finite graph, cycles and self-loops    *)
(* included: nodeLayer.set runs at most once per node, the dfs recursion   *)
(* is never deeper than the number of nodes, the number of loop steps      *)
(* taken is at most 3 * nodes + transitions, and as long as applyLayout    *)
(* has not returned the guard of a next step holds (every step is a total  *)
(* computation of bounded loops once its guard holds).                     *)
LayeringTerminates ==
  /\ \A id \in NodeIds : setCount[id] <= 1
  /\ Len(stack) <= Len(lnodes)
  /\ steps <= 3 * Len(lnodes) + Len(ValidTrans(lnodes, ltrans))
  /\ (lpc # "done" => \/ Len(lnodes) = 0
                       \/ LayerRootReady
                       \/ DfsVisitPredReady
                       \/ DfsReturnReady
                       \/ FinishReady)

\* the two-node cycle n1 -> n2 -> n1 has been layered, both nodes present
CycleLayered ==
  /\ lpc = "done"
  /\ Len(lnodes) = 2
  /\ ltrans = <<[from |-> "n1", to |-> "n2"], [from |-> "n2", to |-> "n1"]>>
  /\ DOMAIN nodeLayer = {"n1", "n2"}
  /\ \A id \in {"n1", "n2"} : setCount[id] = 1

DistinctIds(nodes) == \A i, j \in 1..Len(nodes) : nodes[i].id = nodes[j].id => i = j

(* C2: for node ids pairwise distinct, once layering and ordering are done *)
(* every node id stands in exactly one layer at exactly one rank, and the  *)
(* layers hold nothing but node ids, whatever the transitions are.         *)
EveryNodeInOneLayer ==
  (lpc = "done" /\ Len(lnodes) > 0 /\ DistinctIds(lnodes)) =>
    /\ \A id \in NodeIdsOf(lnodes) : Cardinality(PlacesOf(orderedLayers, id)) = 1
    /\ \A l \in 1..Len(orderedLayers) : Range(orderedLayers[l]) \subseteq NodeIdsOf(lnodes)
    /\ \A l \in 1..Len(orderedLayers) : Len(orderedLayers[l]) > 0

\* a laid out graph with a self-loop, an unconnected node and a transition
\* to an undeclared node
CyclicDanglingLaidOut ==
  /\ lpc = "done"
  /\ Len(lnodes) = 2
  /\ ltrans = <<[from |-> "n1", to |-> "n1"], [from |-> "n2", to |-> "n3"]>>
  /\ \A id \in {"n1", "n2"} : Cardinality(PlacesOf(orderedLayers, id)) = 1

\* the orders in which the nodes can be chained
Perms(k) == {p \in [1..k -> 1..k] : \A i, j \in 1..k : p[i] = p[j] => i = j}

\* trans is the straight chain nodes[p[1]] -> nodes[p[2]] -> ... -> nodes[p[k]],
\* its transitions listed in any order
IsChain(nodes, trans, p) ==
  /\ Len(trans) = Len(nodes) - 1
  /\ Range(trans) = {[from |-> nodes[p[j]].id, to |-> nodes[p[j + 1]].id] :
                       j \in 1..(Len(nodes) - 1)}

PrimaryAxis(node, direction) ==
  IF direction = "TB" THEN node.position.y ELSE node.position.x

(* C3: a straight chain of k nodes, listed in any order, gets k distinct   *)
(* layers increasing along the chain, and coordinates strictly increasing  *)
(* along the primary axis (y top-to-bottom, x left-to-right).              *)
ChainLayersIncrease ==
  (lpc = "done" /\ Len(lnodes) > 0 /\ Len(ltrans) = Len(lnodes) - 1) =>
    \A p \in Perms(Len(lnodes)) :
      IsChain(lnodes, ltrans, p) =>
        /\ Len(orderedLayers) = Len(lnodes)
        /\ Cardinality({nodeLayer[id] : id \in NodeIdsOf(lnodes)}) = Len(lnodes)
        /\ \A j \in 1..(Len(lnodes) - 1) :
             /\ nodeLayer[lnodes[p[j]].id] < nodeLayer[lnodes[p[j + 1]].id]
             /\ PrimaryAxis(lnodes[p[j]], ldir) < PrimaryAxis(lnodes[p[j + 1]], ldir)

\* the chain n3 -> n1 -> n2, its transitions listed out of order, laid out
\* left to right
ChainLaidOut ==
  /\ lpc = "done"
  /\ ldir = "LR"
  /\ Len(lnodes) = 3
  /\ ltrans = <<[from |-> "n1", to |-> "n2"], [from |-> "n3", to |-> "n1"]>>
  /\ lnodes[3].position.x < lnodes[1].position.x
  /\ lnodes[1].position.x < lnodes[2].position.x

-----------------------------------------------------------------------------
(***************************************************************************)
(* Mutation engine (lib/workflow-normalizer.ts, applyMutation) and the     *)
(* workflow provider (WorkflowProvider, applyMutations).                   *)
(*                                                                         *)
(* Objects live in a heap so that identity and aliasing can be told from   *)
(* equality of values: a process object holds the addresses of its two     *)
(* arrays, an array holds the addresses of its elements, and a node or a   *)
(* transition is a cell holding a record.  A position is part of the node  *)
(* record: no operation of the engine reaches a position object.           *)
(***************************************************************************)
MaxWfNodes == 2
MaxWfTrans == 2
MaxBatch == 2
MaxRounds == 1

WfIds == {IdPool[i] : i \in 1..MaxWfNodes}

GenIds == {"g1", "g2"}

Truthy(s) == s # Undefined /\ s # ""

\* the value a process object and everything it holds stands for
Deep(h, w) ==
  [id |-> h[w].id,
   name |-> h[w].name,
   code |-> h[w].code,
   description |-> h[w].description,
   nodes |-> [i \in 1..Len(h[h[w].nodes].elems) |-> h[h[h[w].nodes].elems[i]].val],
   transitions |-> [i \in 1..Len(h[h[w].transitions].elems) |-> h[h[h[w].transitions].elems[i]].val]]

\* the addresses of the objects a process object holds, itself included
Reach(h, w) ==
  {w, h[w].nodes, h[w].transitions} \cup Range(h[h[w].nodes].elems) \cup Range(h[h[w].transitions].elems)

\* a fresh object graph for the value wf
Store(h, wf) ==
  LET base == Len(h)
      n == Len(wf.nodes)
      t == Len(wf.transitions)
      process == [kind |-> "process", id |-> wf.id, name |-> wf.name,
                  code |-> wf.code, description |-> wf.description,
                  nodes |-> base + 2, transitions |-> base + 3]
      nodeArray == [kind |-> "array", elems |-> [i \in 1..n |-> base + 3 + i]]
      transArray == [kind |-> "array", elems |-> [j \in 1..t |-> base + 3 + n + j]]
      nodeCells == [i \in 1..n |-> [kind |-> "object", val |-> wf.nodes[i]]]
      transCells == [j \in 1..t |-> [kind |-> "object", val |-> wf.transitions[j]]]
  IN  [heap |-> h \o <<process, nodeArray, transArray>> \o nodeCells \o transCells,
       ref |-> base + 1]

\* a copy of the process object alone, its arrays shared with the original
ShallowCopy(h, w) == [heap |-> Append(h, h[w]), ref |-> Len(h) + 1]

StructuredClone(h, w) == Store(h, Deep(h, w))

NewObject(h, val) == [heap |-> Append(h, [kind |-> "object", val |-> val]), ref |-> Len(h) + 1]

\* Variant: the object is put in front of the array
PushFront(h, array, a) == [h EXCEPT ![array].elems = <<a>> \o @]

\* array.push(object)
Push(h, array, a) == [h EXCEPT ![array].elems = Append(@, a)]

\* array.filter(...): a new array holding, in order, the objects that pass;
\* kept is the set of the addresses whose object passes the callback
Filter(h, array, kept) ==
  LET keepAt(a) == a \in kept
  IN  [heap |-> Append(h, [kind |-> "array", elems |-> SelectSeq(h[array].elems, keepAt)]),
       ref |-> Len(h) + 1]

\* array.find(...): the first object that passes, Null for undefined;
\* passing is the set of the addresses whose object passes the callback
Find(h, array, passing) ==
  LET hits == {i \in 1..Len(h[array].elems) : h[array].elems[i] \in passing}
  IN  IF hits = {} THEN Null
      ELSE h[array].elems[CHOOSE i \in hits : \A j \in hits : i <= j]

\* the addresses an array holds
Elems(h, array) == Range(h[array].elems)

\* the rest of a destructured payload: { k1, k2, ...changes }
Rest(payload, keys) == [k \in (DOMAIN payload) \ keys |-> payload[k]]

\* Object.assign(target, changes)
Merge(val, changes) ==
  [k \in (DOMAIN val) \cup (DOMAIN changes) |-> IF k \in DOMAIN changes THEN changes[k] ELSE val[k]]

ObjectAssign(h, a, changes) == [h EXCEPT ![a].val = Merge(@, changes)]

ReferencesNodeAsSource(t, id) == t.from = id

\* Variant: only the transitions that enter the node count as referencing it
ReferencesNodeAsTarget(t, id) == t.to = id

ReferencesNode(t, id) == t.from = id \/ t.to = id

MatchesTransition(t, from, to) == t.from = from /\ t.to = to

\* applyMutation(workflow, mutation); gen is what generateId() returns
ApplyMutation(h, wf, mutation, gen) ==
  LET c == StructuredClone(h, wf)
      upd == c.ref
      p == mutation.payload
  IN  CASE mutation.type = "addNode" ->
             LET type == IF p.type = Undefined THEN "task" ELSE p.type
                 o == NewObject(c.heap, [id |-> IF Truthy(p.id) THEN p.id ELSE gen,
                                         name |-> p.name,
                                         type |-> type,
                                         position |-> Origin])
             IN  [heap |-> Push(o.heap, o.heap[upd].nodes, o.ref), ref |-> upd]
        [] mutation.type = "removeNode" ->
             LET keptNodes == {a \in Elems(c.heap, c.heap[upd].nodes) : c.heap[a].val.id # p.id}
                 f1 == Filter(c.heap, c.heap[upd].nodes, keptNodes)
                 h1 == [f1.heap EXCEPT ![upd].nodes = f1.ref]
                 keptTrans == {a \in Elems(h1, h1[upd].transitions) : ~ReferencesNode(h1[a].val, p.id)}
                 f2 == Filter(h1, h1[upd].transitions, keptTrans)
             IN  [heap |-> [f2.heap EXCEPT ![upd].transitions = f2.ref], ref |-> upd]
        [] mutation.type = "updateNode" ->
             LET withId == {a \in Elems(c.heap, c.heap[upd].nodes) : c.heap[a].val.id = p.id}
                 node == Find(c.heap, c.heap[upd].nodes, withId)
             IN  IF node # Null
                 THEN [heap |-> ObjectAssign(c.heap, node, Rest(p, {"id"})), ref |-> upd]
                 ELSE c
        [] mutation.type = "addTransition" ->
             LET o == NewObject(c.heap, [id |-> gen, from |-> p.from, to |-> p.to, label |-> p.label])
             IN  [heap |-> Push(o.heap, o.heap[upd].transitions, o.ref), ref |-> upd]
        [] mutation.type = "removeTransition" ->
             LET kept == {a \in Elems(c.heap, c.heap[upd].transitions) :
                            ~MatchesTransition(c.heap[a].val, p.from, p.to)}
                 f == Filter(c.heap, c.heap[upd].transitions, kept)
             IN  [heap |-> [f.heap EXCEPT ![upd].transitions = f.ref], ref |-> upd]
        [] mutation.type = "updateTransition" ->
             LET matching == {a \in Elems(c.heap, c.heap[upd].transitions) :
                                MatchesTransition(c.heap[a].val, p.from, p.to)}
                 trans == Find(c.heap, c.heap[upd].transitions, matching)
             IN  IF trans # Null
                 THEN [heap |-> ObjectAssign(c.heap, trans, Rest(p, {"from", "to"})), ref |-> upd]
                 ELSE c
        [] OTHER -> c

\* whether applyMutation calls generateId() for this mutation
CallsGenerateId(mutation) ==
  \/ mutation.type = "addNode" /\ ~Truthy(mutation.payload.id)
  \/ mutation.type = "addTransition"

(***************************************************************************)
(* The workflows and the mutations the provider is given.                  *)
(***************************************************************************)
SamplePosition(i) == [x |-> 100 * i, y |-> 50]

SampleNodeLists ==
  {[i \in 1..k |-> [id |-> IdPool[i], name |-> "Node", type |-> "task", position |-> SamplePosition(i)]] :
     k \in 0..MaxWfNodes}

SampleTransLists ==
  LET pairs == {<<a, b>> : a \in WfIds, b \in WfIds}
      lists == SeqsUpTo(pairs, MaxWfTrans)
  IN  {[i \in 1..Len(l) |-> [id |-> IdPool[MaxWfNodes + i], from |-> l[i][1], to |-> l[i][2],
                             label |-> Undefined]] : l \in lists}

SampleWorkflows ==
  {[id |-> "wf", name |-> "Workflow", code |-> "workflow", description |-> "A workflow",
    nodes |-> ns, transitions |-> ts] :
     ns \in SampleNodeLists, ts \in SampleTransLists}

SamplePairs == {<<IdPool[1], IdPool[MaxWfNodes]>>, <<IdPool[MaxWfNodes], IdPool[1]>>}

SampleMutations ==
  {[type |-> "addNode", payload |-> [id |-> Undefined, name |-> "Added", type |-> Undefined]],
   [type |-> "addNode", payload |-> [id |-> IdPool[MaxWfNodes], name |-> "Added", type |-> "gateway"]],
   [type |-> "renameWorkflow", payload |-> [name |-> "Other"]],
   [type |-> "addTransition",
    payload |-> [id |-> "t9", from |-> IdPool[1], to |-> IdPool[MaxWfNodes], label |-> "via"]]}
  \cup {[type |-> "removeNode", payload |-> [id |-> i]] : i \in WfIds}
  \cup {[type |-> "updateNode", payload |-> [id |-> i, name |-> "Renamed"]] : i \in WfIds}
  \cup {[type |-> "addTransition", payload |-> [from |-> p[1], to |-> p[2], label |-> "yes"]] :
          p \in SamplePairs}
  \cup {[type |-> "removeTransition", payload |-> [from |-> p[1], to |-> p[2]]] : p \in SamplePairs}
  \cup {[type |-> "updateTransition", payload |-> [from |-> p[1], to |-> p[2], label |-> "no"]] :
          p \in SamplePairs}

SampleBatches == SeqsUpTo(SampleMutations, MaxBatch)

(***************************************************************************)
(* WorkflowProvider.                                                       *)
(***************************************************************************)
ResetHistory ==
  /\ mutations' = <<>>
  /\ mi' = 0
  /\ updated' = Null
  /\ hadWorkflow' = FALSE
  /\ roundStart' = <<>>
  /\ gens' = <<>>
  /\ argRef' = Null
  /\ argBefore' = <<>>
  /\ rounds' = 0

\* setWorkflow(wf) with a workflow some parser has just built
SetWorkflow ==
  /\ mpc = "idle"
  /\ \E wf \in SampleWorkflows :
       LET s == Store(<<>>, wf)
       IN  /\ heap' = s.heap
           /\ workflow' = s.ref
  /\ mpc' = "idle"
  /\ ResetHistory
  /\ UNCHANGED otherThanMutation

\* clearWorkflow(), setWorkflow(null)
ClearWorkflow ==
  /\ mpc # "loop"
  /\ heap' = <<>>
  /\ workflow' = Null
  /\ mpc' = "idle"
  /\ ResetHistory
  /\ UNCHANGED otherThanMutation

\* applyMutations(batch): the updater is entered with current = workflow
ApplyMutationsEnter ==
  /\ mpc # "loop"
  /\ rounds < MaxRounds
  /\ rounds' = rounds + 1
  /\ \E batch \in SampleBatches : mutations' = batch
  /\ gens' = <<>>
  /\ argRef' = Null
  /\ argBefore' = <<>>
  /\ IF workflow = Null
       THEN /\ hadWorkflow' = FALSE
            /\ roundStart' = <<>>
            /\ mpc' = "returned"
            /\ UNCHANGED <<mi, updated>>
       ELSE /\ hadWorkflow' = TRUE
            /\ roundStart' = Deep(heap, workflow)
            /\ updated' = workflow
            /\ mi' = 1
            /\ mpc' = "loop"
  /\ UNCHANGED <<heap, workflow>>
  /\ UNCHANGED otherThanMutation

\* the workflow the loop hands to applyMutation
LoopArgCurrent(current, upd) == current

LoopArg(current, upd) == upd

\* one turn of the for-of loop: updated = applyMutation(updated, mutation)
ApplyMutationStep ==
  /\ mpc = "loop"
  /\ mi <= Len(mutations)
  /\ \E gen \in (IF CallsGenerateId(mutations[mi]) THEN GenIds ELSE {""}) :
       LET arg == LoopArg(workflow, updated)
           r == ApplyMutation(heap, arg, mutations[mi], gen)
       IN  /\ heap' = r.heap
           /\ updated' = r.ref
           /\ argRef' = arg
           /\ argBefore' = Deep(heap, arg)
           /\ gens' = Append(gens, gen)
  /\ mi' = mi + 1
  /\ UNCHANGED <<workflow, mpc, mutations, hadWorkflow, roundStart, rounds>>
  /\ UNCHANGED otherThanMutation

\* the updater returns updated and the provider stores it
ApplyMutationsReturn ==
  /\ mpc = "loop"
  /\ mi > Len(mutations)
  /\ workflow' = updated
  /\ mpc' = "returned"
  /\ UNCHANGED <<heap, mutations, mi, updated, hadWorkflow, roundStart, gens, argRef, argBefore, rounds>>
  /\ UNCHANGED otherThanMutation

InitMutation ==
  /\ LayoutAtRest
  /\ NormalizeAtRest
  /\ XamlAtRest
  /\ VaultAtRest
  /\ UploadAtRest
  /\ MutationAtRest

NextMutation ==
  \/ SetWorkflow
  \/ ClearWorkflow
  \/ ApplyMutationsEnter
  \/ ApplyMutationStep
  \/ ApplyMutationsReturn

SpecMutation == InitMutation /\ [][NextMutation]_vars

-----------------------------------------------------------------------------
(***************************************************************************)
(* Properties of the mutation engine and of the provider.                  *)
(***************************************************************************)
\* the mutation the last applyMutation call was given
LastMutation == mutations[mi - 1]

(* C4: after applyMutation with removeNode X the result has no node with   *)
(* id X and no transition whose from or to is X, and its transitions are   *)
(* exactly the argument's transitions that did not reference X, in order.  *)
RemoveNodeIntegrity ==
  (argRef # Null /\ LastMutation.type = "removeNode") =>
    LET X == LastMutation.payload.id
        r == Deep(heap, updated)
        unrelated(t) == t.from # X /\ t.to # X
    IN  /\ \A i \in 1..Len(r.nodes) : r.nodes[i].id # X
        /\ \A i \in 1..Len(r.transitions) : r.transitions[i].from # X /\ r.transitions[i].to # X
        /\ r.transitions = SelectSeq(argBefore.transitions, unrelated)

\* removeNode n1 has run on nodes n1, n2 with transitions n1 -> n2 and n2 -> n2
NodeRemoved ==
  /\ argRef # Null
  /\ LastMutation.type = "removeNode"
  /\ LastMutation.payload.id = "n1"
  /\ Len(argBefore.nodes) = 2
  /\ Len(argBefore.transitions) = 2
  /\ argBefore.transitions[1].from = "n1" /\ argBefore.transitions[1].to = "n2"
  /\ argBefore.transitions[2].from = "n2" /\ argBefore.transitions[2].to = "n2"
  /\ Len(Deep(heap, updated).nodes) = 1
  /\ Deep(heap, updated).transitions = <<argBefore.transitions[2]>>

(* C5: applyMutation never modifies its argument: after every call, for    *)
(* every mutation type, the argument's process object, node list,          *)
(* transition list and every node and transition have the values they had  *)
(* before the call, and the result holds none of the argument's objects.   *)
ArgumentUntouched ==
  argRef # Null =>
    /\ Deep(heap, argRef) = argBefore
    /\ Reach(heap, argRef) \cap Reach(heap, updated) = {}

\* updateNode has renamed a node of the copy and addNode has pushed onto it
NodeRenamedInCopy ==
  /\ argRef # Null
  /\ Len(mutations) = 2
  /\ mi = 3
  /\ mutations[1].type = "updateNode"
  /\ mutations[2].type = "addNode"
  /\ Len(argBefore.nodes) = 2
  /\ argBefore.nodes[1].name = "Renamed"
  /\ roundStart.nodes[1].name = "Node"
  /\ Len(Deep(heap, updated).nodes) = 3

RECURSIVE FoldMutations(_, _, _, _, _)
FoldMutations(h, w, muts, gs, i) ==
  IF i > Len(muts) THEN [heap |-> h, ref |-> w]
  ELSE LET r == ApplyMutation(h, w, muts[i], gs[i])
       IN  FoldMutations(r.heap, r.ref, muts, gs, i + 1)

(* C6: when the applyMutations updater has returned, the provider holds    *)
(* applyMutation(...applyMutation(applyMutation(w, m1), m2)..., mn) for    *)
(* the workflow w it held and the batch m1..mn it was given, generateId    *)
(* returning the same ids; with no workflow the provider still holds none. *)
BatchIsFold ==
  mpc = "returned" =>
    IF hadWorkflow
      THEN LET s == Store(<<>>, roundStart)
               f == FoldMutations(s.heap, s.ref, mutations, gens, 1)
           IN  /\ Len(gens) = Len(mutations)
               /\ Deep(heap, workflow) = Deep(f.heap, f.ref)
      ELSE workflow = Null /\ heap = <<>>

\* the batch <<addNode n2, removeNode n2>> has been applied to the single node n1
BatchApplied ==
  /\ mpc = "returned"
  /\ hadWorkflow
  /\ Len(mutations) = 2
  /\ mutations[1].type = "addNode" /\ mutations[1].payload.id = "n2"
  /\ mutations[2].type = "removeNode" /\ mutations[2].payload.id = "n2"
  /\ Len(roundStart.nodes) = 1
  /\ Len(Deep(heap, workflow).nodes) = 1

-----------------------------------------------------------------------------
(***************************************************************************)
(* Normalizer (lib/workflow-normalizer.ts): what a content is.             *)
(*                                                                         *)
(* A content is described by what the code reads of it: how its trimmed    *)
(* text starts and which markers it includes (detectFormat), what          *)
(* JSON.parse makes of it, its lines as sequences of characters (flow      *)
(* text) and its XML elements (BPMN).                                      *)
(*                                                                         *)
(* A JSON value is tagged: "invalid" stands for a text JSON.parse rejects.  *)
(* The keys data, nodes, transitions and edges hold tagged values, position*)
(* holds a record, every other key a string; an absent key is absent from  *)
(* the record.                                                             *)
(***************************************************************************)
MaxJsonNodes == 2
MaxJsonTrans == 2
MaxLines == 2
MaxElements == 2

JInvalid == [t |-> "invalid"]

JNull == [t |-> "null"]

JStr(s) == [t |-> "str", v |-> s]

JArr(s) == [t |-> "arr", v |-> s]

JObj(r) == [t |-> "obj", v |-> r]

EmptyObject == [k \in {} |-> ""]

JTruthy(j) == j.t \in {"arr", "obj"} \/ (j.t = "str" /\ j.v # "")

Has(r, k) == k \in DOMAIN r

\* r[k] || d for a key holding a string
StrOr(r, k, d) == IF Has(r, k) /\ r[k] # "" THEN r[k] ELSE d

\* r[k] for a key holding a string, undefined when absent
StrOf(r, k) == IF Has(r, k) THEN r[k] ELSE Undefined

\* whether the key holds a truthy tagged value
TruthyAt(r, k) == Has(r, k) /\ JTruthy(r[k])

\* the keys of a BusinessProcess, a node or a transition that hold a string
StringKeys == {"id", "name", "code", "description", "type", "from", "to", "label", "condition"}

\* JSON.stringify of an object: a key whose value is undefined is left out
StringifyObject(r) == [k \in {q \in DOMAIN r : q \notin StringKeys \/ r[q] # Undefined} |-> r[k]]

\* JSON.stringify(workflow) followed by JSON.parse: the value the text denotes
StringifyWorkflow(wf) ==
  LET nodeOf(n) == JObj(StringifyObject(n))
      transOf(t) == JObj(StringifyObject(t))
      top == [id |-> wf.id, name |-> wf.name, code |-> wf.code, description |-> wf.description]
      kept == StringifyObject(top)
  IN  JObj([k \in DOMAIN kept \cup {"nodes", "transitions"} |->
              IF k = "nodes" THEN JArr(SeqMap(nodeOf, wf.nodes))
              ELSE IF k = "transitions" THEN JArr(SeqMap(transOf, wf.transitions))
              ELSE kept[k]])

\* what a call returns: a value, or the message of the Error it threw
Returned(wf) == [ok |-> TRUE, workflow |-> wf, error |-> ""]

Threw(message) == [ok |-> FALSE, workflow |-> <<>>, error |-> message]

(***************************************************************************)
(* parseJsonWorkflow.  gs[k] is what the k-th possible generateId() call   *)
(* returns: the process id, then the nodes, then the transitions.          *)
(***************************************************************************)
JsonNode(e, gen) ==
  LET r == IF e.t = "obj" THEN e.v ELSE EmptyObject
  IN  [id |-> StrOr(r, "id", gen),
       type |-> StrOr(r, "type", "task"),
       name |-> StrOr(r, "name", "Node"),
       position |-> IF Has(r, "position") THEN r.position ELSE Origin]

\* a reader that knows only the source/target spelling of a transition
JsonTransitionSourceTarget(e, gen) ==
  LET r == IF e.t = "obj" THEN e.v ELSE EmptyObject
  IN  [id |-> StrOr(r, "id", gen),
       from |-> StrOr(r, "source", ""),
       to |-> StrOr(r, "target", ""),
       label |-> StrOf(r, "label"),
       condition |-> StrOf(r, "condition")]

JsonTransition(e, gen) ==
  LET r == IF e.t = "obj" THEN e.v ELSE EmptyObject
  IN  [id |-> StrOr(r, "id", gen),
       from |-> StrOr(r, "from", StrOr(r, "source", "")),
       to |-> StrOr(r, "to", StrOr(r, "target", "")),
       label |-> StrOf(r, "label"),
       condition |-> StrOf(r, "condition")]

HasNull(arr) == \E i \in 1..Len(arr) : arr[i].t = "null"

ParseJsonWorkflow(content, gs) ==
  LET parsed == content.json
      data == IF parsed.t = "obj" /\ TruthyAt(parsed.v, "data") THEN parsed.v.data ELSE parsed
      r == IF data.t = "obj" THEN data.v ELSE EmptyObject
      list == IF TruthyAt(r, "transitions") THEN r.transitions ELSE r.edges
      n == Len(r.nodes.v)
  IN  IF parsed.t = "invalid" THEN Threw("SyntaxError")
      ELSE IF parsed.t = "null" THEN Threw("TypeError")
      ELSE IF ~(Has(r, "nodes") /\ r.nodes.t = "arr")
             THEN Threw("Invalid workflow JSON: missing nodes array")
      ELSE IF ~TruthyAt(r, "transitions") /\ ~TruthyAt(r, "edges")
             THEN Threw("Invalid workflow JSON: missing transitions/edges array")
      ELSE IF HasNull(r.nodes.v) THEN Threw("TypeError")
      ELSE IF list.t # "arr" THEN Threw("TypeError")
      ELSE IF HasNull(list.v) THEN Threw("TypeError")
      ELSE Returned([id |-> StrOr(r, "id", gs[1]),
                     name |-> StrOr(r, "name", "Workflow"),
                     code |-> StrOr(r, "code", "workflow"),
                     description |-> StrOf(r, "description"),
                     nodes |-> [i \in 1..n |-> JsonNode(r.nodes.v[i], gs[1 + i])],
                     transitions |-> [j \in 1..Len(list.v) |-> JsonTransition(list.v[j], gs[1 + n + j])]])

(***************************************************************************)
(* parseMermaidWorkflow.  A line is a sequence of characters, and so are   *)
(* the ids, names and labels cut out of it; the empty sequence stands for  *)
(* an undefined label.  The two regular expressions are matched as the     *)
(* engine matches them: leftmost, greedy, and where giving characters back *)
(* cannot make the rest match the greedy choice is the only one tried.     *)
(***************************************************************************)
UpperCase == <<"A", "B", "C", "D", "E", "F", "G", "H", "I", "J", "K", "L", "M",
               "N", "O", "P", "Q", "R", "S", "T", "U", "V", "W", "X", "Y", "Z">>

LowerCase == <<"a", "b", "c", "d", "e", "f", "g", "h", "i", "j", "k", "l", "m",
               "n", "o", "p", "q", "r", "s", "t", "u", "v", "w", "x", "y", "z">>

Digits == {"0", "1", "2", "3", "4", "5", "6", "7", "8", "9"}

\* \w
IsWord(c) == c \in Range(UpperCase) \cup Range(LowerCase) \cup Digits \cup {"_"}

\* \s
IsSpace(c) == c = " "

ToLowerCase(s) ==
  LET lower(c) == IF \E i \in 1..Len(UpperCase) : UpperCase[i] = c
                    THEN LowerCase[CHOOSE i \in 1..Len(UpperCase) : UpperCase[i] = c]
                    ELSE c
  IN  SeqMap(lower, s)

Includes(s, part) == \E i \in 1..(Len(s) - Len(part) + 1) : SubSeq(s, i, i + Len(part) - 1) = part

StartsWith(s, part) == Len(s) >= Len(part) /\ SubSeq(s, 1, Len(part)) = part

At(line, i) == IF i \in 1..Len(line) THEN line[i] ELSE ""

\* the last index of the run of word characters that starts at i, i - 1 when there is none
RECURSIVE WordEnd(_, _)
WordEnd(line, i) == IF IsWord(At(line, i)) THEN WordEnd(line, i + 1) ELSE i - 1

\* the last index of the run of dashes that starts at i, i - 1 when there is none
RECURSIVE DashEnd(_, _)
DashEnd(line, i) == IF At(line, i) = "-" THEN DashEnd(line, i + 1) ELSE i - 1

\* the first index from i on that holds no space
RECURSIVE SkipSpaces(_, _)
SkipSpaces(line, i) == IF IsSpace(At(line, i)) THEN SkipSpaces(line, i + 1) ELSE i

\* the first index from i on that holds c, 0 when there is none
IndexOf(line, c, i) ==
  LET hits == {k \in i..Len(line) : line[k] = c}
  IN  IF hits = {} THEN 0 ELSE CHOOSE k \in hits : \A q \in hits : k <= q

RECURSIVE TrimEnd(_)
TrimEnd(line) ==
  IF Len(line) > 0 /\ IsSpace(line[Len(line)]) THEN TrimEnd(SubSeq(line, 1, Len(line) - 1)) ELSE line

Trim(line) == TrimEnd(SubSeq(line, SkipSpaces(line, 1), Len(line)))

NoMatch == [matched |-> FALSE]

\* the alternatives after the id, which ends at e
NodeMatchAfterId(line, e, square, circle, diamond) ==
  IF At(line, e + 1) = "[" /\ square > e + 2
    THEN [matched |-> TRUE, id |-> SubSeq(line, 1, e), shape |-> "square",
          label |-> SubSeq(line, e + 2, square - 1)]
  ELSE IF At(line, e + 1) = "(" /\ At(line, e + 2) = "(" /\ circle > e + 3 /\ At(line, circle + 1) = ")"
    THEN [matched |-> TRUE, id |-> SubSeq(line, 1, e), shape |-> "circle",
          label |-> SubSeq(line, e + 3, circle - 1)]
  ELSE IF At(line, e + 1) = "{" /\ diamond > e + 2
    THEN [matched |-> TRUE, id |-> SubSeq(line, 1, e), shape |-> "diamond",
          label |-> SubSeq(line, e + 2, diamond - 1)]
  ELSE NoMatch

NodeMatchId(line, e) ==
  IF e < 1 THEN NoMatch
  ELSE NodeMatchAfterId(line, e, IndexOf(line, "]", e + 2), IndexOf(line, ")", e + 3),
                        IndexOf(line, "}", e + 2))

\* /^(\w+)(?:\[([^\]]+)\]|\(\(([^)]+)\)\)|\{([^}]+)\})/
NodeMatch(line) == NodeMatchId(line, WordEnd(line, 1))

\* (\w+) at the end: the target starts at toStart
TransMatchTo(line, s, e, label, toStart, toEnd) ==
  IF toEnd >= toStart
    THEN [matched |-> TRUE, from |-> SubSeq(line, s, e), label |-> label,
          to |-> SubSeq(line, toStart, toEnd)]
    ELSE NoMatch

\* (?:\|([^|]+)\|)?\s* with k3 the index after the arrow and its spaces,
\* bar the index of the next bar after k3 and k4 the index after that bar and its spaces
TransMatchLabel(line, s, e, k3, bar, k4, labelled) ==
  IF labelled
    THEN TransMatchTo(line, s, e, SubSeq(line, k3 + 1, bar - 1), k4, WordEnd(line, k4))
    ELSE TransMatchTo(line, s, e, <<>>, k3, WordEnd(line, k3))

TransMatchBar(line, s, e, k3, bar, k4) ==
  TransMatchLabel(line, s, e, k3, bar, k4, At(line, k3) = "|" /\ bar > k3 + 1 /\ WordEnd(line, k4) >= k4)

TransMatchArrowEnd(line, s, e, k3, bar) == TransMatchBar(line, s, e, k3, bar, SkipSpaces(line, bar + 1))

TransMatchArrow(line, s, e, k3) == TransMatchArrowEnd(line, s, e, k3, IndexOf(line, "|", k3 + 1))

\* --+>?\s* with k1 the index of the first dash and d the index of the last one
TransMatchDashes(line, s, e, k1, d) ==
  IF d >= k1 + 1
    THEN TransMatchArrow(line, s, e, SkipSpaces(line, IF At(line, d + 1) = ">" THEN d + 2 ELSE d + 1))
    ELSE NoMatch

TransMatchSpaces(line, s, e, k1) == TransMatchDashes(line, s, e, k1, DashEnd(line, k1))

TransMatchFrom(line, s, e) ==
  IF e >= s THEN TransMatchSpaces(line, s, e, SkipSpaces(line, e + 1)) ELSE NoMatch

\* /(\w+)\s*--+>?\s*(?:\|([^|]+)\|)?\s*(\w+)/ tried at the start index s
TransMatchAt(line, s) == TransMatchFrom(line, s, WordEnd(line, s))

\* the leftmost match
TransMatch(line) ==
  LET starts == {s \in 1..Len(line) : TransMatchAt(line, s).matched}
  IN  IF starts = {} THEN NoMatch
      ELSE TransMatchAt(line, CHOOSE s \in starts : \A q \in starts : s <= q)

\* lines.map(trim).filter(l => l && !l.startsWith('%%')).slice(1)
ContentLines(lines) ==
  LET kept(l) == Len(l) > 0 /\ ~StartsWith(l, <<"%", "%">>)
      all == SelectSeq(SeqMap(Trim, lines), kept)
  IN  SubSeq(all, 2, Len(all))

HasNode(nodes, id) == \E i \in 1..Len(nodes) : nodes[i].id = id

\* Variant: a later declaration overwrites the node that holds the id
DeclareNodeOverwriting(nodes, id, type, name) ==
  IF HasNode(nodes, id)
    THEN [i \in 1..Len(nodes) |->
            IF nodes[i].id = id THEN [nodes[i] EXCEPT !.type = type, !.name = name] ELSE nodes[i]]
    ELSE Append(nodes, [id |-> id, type |-> type, name |-> name, position |-> Origin])

\* nodes.push(node) unless nodeMap.has(id)
DeclareNode(nodes, id, type, name) ==
  IF HasNode(nodes, id) THEN nodes
  ELSE Append(nodes, [id |-> id, type |-> type, name |-> name, position |-> Origin])

NodeTypeOf(m) ==
  IF m.shape = "diamond" THEN "gateway"
  ELSE IF m.shape = "circle"
         THEN (IF Includes(ToLowerCase(m.id), <<"s", "t", "a", "r", "t">>) THEN "start" ELSE "end")
         ELSE "task"

\* const [, id, squareLabel, circleLabel, diamondLabel] = nodeMatch ...
AfterNodeMatch(nodes, nm) ==
  IF nm.matched THEN DeclareNode(nodes, nm.id, NodeTypeOf(nm), nm.label) ELSE nodes

\* const [, from, label, to] = transMatch ... (the nodes)
AfterTransMatch(nodes, tm) ==
  IF tm.matched
    THEN DeclareNode(DeclareNode(nodes, tm.from, "task", tm.from), tm.to, "task", tm.to)
    ELSE nodes

\* transitions.push(...)
PushTransition(transitions, tm, gen) ==
  IF tm.matched
    THEN Append(transitions, [id |-> gen, from |-> tm.from, to |-> tm.to, label |-> tm.label])
    ELSE transitions

MermaidMatched(acc, nm, tm, gen) ==
  [nodes |-> AfterTransMatch(AfterNodeMatch(acc.nodes, nm), tm),
   transitions |-> PushTransition(acc.transitions, tm, gen)]

\* the body of the loop over the lines; acc holds nodes and transitions
MermaidLine(acc, line, gen) == MermaidMatched(acc, NodeMatch(line), TransMatch(line), gen)

RECURSIVE MermaidLines(_, _, _, _)
MermaidLines(acc, lines, gs, i) ==
  IF i > Len(lines) THEN acc
  ELSE MermaidLines(MermaidLine(acc, lines[i], gs[i]), lines, gs, i + 1)

MermaidParsed(lines, gs) ==
  LET acc == MermaidLines([nodes |-> <<>>, transitions |-> <<>>], lines, gs, 1)
  IN  [id |-> gs[Len(lines) + 1],
       name |-> "Mermaid Workflow",
       code |-> "mermaid-workflow",
       description |-> "Imported from Mermaid diagram",
       nodes |-> acc.nodes,
       transitions |-> acc.transitions]

ParseMermaidWorkflow(content, gs) == Returned(MermaidParsed(ContentLines(content.lines), gs))

(***************************************************************************)
(* parseBpmnWorkflow.  An element is its tag and its attributes; dom tells *)
(* whether the environment has a DOMParser.                                *)
(***************************************************************************)
\* querySelectorAll: the indices of the elements with one of the tags, in document order
RECURSIVE SelectAll(_, _, _)
SelectAll(xml, tags, i) ==
  IF i > Len(xml) THEN <<>>
  ELSE (IF xml[i].tag \in tags THEN <<i>> ELSE <<>>) \o SelectAll(xml, tags, i + 1)

BpmnNode(xml, i, type, defaultName, gs) ==
  [id |-> StrOr(xml[i].attrs, "id", gs[i]),
   type |-> type,
   name |-> StrOr(xml[i].attrs, "name", defaultName),
   position |-> Origin]

BpmnFlow(xml, i, gs) ==
  [id |-> StrOr(xml[i].attrs, "id", gs[i]),
   from |-> xml[i].attrs.sourceRef,
   to |-> xml[i].attrs.targetRef,
   label |-> StrOr(xml[i].attrs, "name", Undefined)]

ParseBpmnWorkflow(content, gs, dom) ==
  LET xml == content.xml
      starts == SelectAll(xml, {"startEvent", "bpmn:startEvent"}, 1)
      ends == SelectAll(xml, {"endEvent", "bpmn:endEvent"}, 1)
      tasks == SelectAll(xml, {"task", "userTask", "serviceTask",
                               "bpmn:task", "bpmn:userTask", "bpmn:serviceTask"}, 1)
      gateways == SelectAll(xml, {"exclusiveGateway", "parallelGateway",
                                  "bpmn:exclusiveGateway", "bpmn:parallelGateway"}, 1)
      flows == SelectAll(xml, {"sequenceFlow", "bpmn:sequenceFlow"}, 1)
      startOf(i) == BpmnNode(xml, i, "start", "Start", gs)
      taskOf(i) == BpmnNode(xml, i, "task", "Task", gs)
      gatewayOf(i) == BpmnNode(xml, i, "gateway", "Gateway", gs)
      endOf(i) == BpmnNode(xml, i, "end", "End", gs)
      flowOf(i) == BpmnFlow(xml, i, gs)
      hasRefs(i) == StrOr(xml[i].attrs, "sourceRef", "") # "" /\ StrOr(xml[i].attrs, "targetRef", "") # ""
  IN  IF ~dom THEN Threw("DOMParser is not defined")
      ELSE Returned([id |-> gs[Len(xml) + 1],
                     name |-> "BPMN Workflow",
                     code |-> "bpmn-workflow",
                     description |-> "Imported from BPMN",
                     nodes |-> SeqMap(startOf, starts) \o SeqMap(taskOf, tasks)
                               \o SeqMap(gatewayOf, gateways) \o SeqMap(endOf, ends),
                     transitions |-> SeqMap(flowOf, SelectSeq(flows, hasRefs))])

(***************************************************************************)
(* detectFormat.                                                           *)
(***************************************************************************)
DetectFormat(content) ==
  LET looksXml == content.xmlDecl \/ content.lead = "<"
  IN  IF content.lead \in {"{", "["} /\ content.json.t # "invalid" THEN "json"
      ELSE IF looksXml /\ (content.stateMachine \/ content.netfx) THEN "xaml"
      ELSE IF looksXml /\ (content.bpmnPrefix \/ (content.definitions /\ content.process)) THEN "bpmn"
      ELSE IF content.lead \in {"graph ", "flowchart ", "stateDiagram"} THEN "mermaid"
      ELSE "natural"

(***************************************************************************)
(* validateWorkflow: the warnings it pushes, in order.                     *)
(***************************************************************************)
OrphanWarningsSourceOnly(t, nodeIds) ==
  IF t.from \notin nodeIds THEN <<[kind |-> "unknown source", of |-> t.from]>> ELSE <<>>

OrphanWarnings(t, nodeIds) ==
  (IF t.from \notin nodeIds THEN <<[kind |-> "unknown source", of |-> t.from]>> ELSE <<>>)
  \o (IF t.to \notin nodeIds THEN <<[kind |-> "unknown target", of |-> t.to]>> ELSE <<>>)

\* a validator that does not exempt the process of one node
IsolatedWarningsAnyCount(n, connectedNodes, count) ==
  IF n.id \notin connectedNodes THEN <<[kind |-> "isolated", of |-> n.name]>> ELSE <<>>

IsolatedWarnings(n, connectedNodes, count) ==
  IF n.id \notin connectedNodes /\ count > 1 THEN <<[kind |-> "isolated", of |-> n.name]>> ELSE <<>>

RECURSIVE Flatten(_, _)
Flatten(parts, i) == IF i > Len(parts) THEN <<>> ELSE parts[i] \o Flatten(parts, i + 1)

ValidateWorkflow(wf) ==
  LET nodeIds == NodeIdsOf(wf.nodes)
      connectedNodes == {wf.transitions[i].from : i \in 1..Len(wf.transitions)}
                        \cup {wf.transitions[i].to : i \in 1..Len(wf.transitions)}
      orphans(t) == OrphanWarnings(t, nodeIds)
      isolated(n) == IsolatedWarnings(n, connectedNodes, Len(wf.nodes))
      hasStart == \E i \in 1..Len(wf.nodes) : wf.nodes[i].type = "start"
      hasEnd == \E i \in 1..Len(wf.nodes) : wf.nodes[i].type = "end"
  IN  Flatten(SeqMap(orphans, wf.transitions), 1)
      \o Flatten(SeqMap(isolated, wf.nodes), 1)
      \o (IF ~hasStart THEN <<[kind |-> "no start"]>> ELSE <<>>)
      \o (IF ~hasEnd THEN <<[kind |-> "no end"]>> ELSE <<>>)

(***************************************************************************)
(* applyLayout of the normalizer: Dagre places the nodes unless one of     *)
(* them already has a position other than the origin.  Dagre is outside    *)
(* the repository: it is taken to return, for every node, some position    *)
(* inside the margins.                                                     *)
(***************************************************************************)
DagrePositions == {[x |-> 50, y |-> 50], [x |-> 280, y |-> 200]}

\* no node, or hasPositions: some node is away from the origin
SkipsDagre(wf) ==
  \/ Len(wf.nodes) = 0
  \/ \E i \in 1..Len(wf.nodes) : wf.nodes[i].position.x # 0 \/ wf.nodes[i].position.y # 0

WithPositions(wf, pos) ==
  [wf EXCEPT !.nodes = [i \in 1..Len(wf.nodes) |-> [wf.nodes[i] EXCEPT !.position = pos[i]]]]

(***************************************************************************)
(* parseXamlWorkflow as normalizeWorkflow sees it: it throws, or it builds *)
(* its nodes at the origin and has Dagre place them before it returns      *)
(* (applyDagreLayout), which leaves an empty node list as it is.           *)
(***************************************************************************)
ParseXamlOutcomes(dom) ==
  LET open == [id |-> "s1", type |-> "start", name |-> "Open", position |-> Origin]
      closed == [id |-> "s2", type |-> "end", name |-> "Closed", position |-> Origin]
      close == [id |-> "transition-0", from |-> "s1", to |-> "s2", label |-> "Close"]
      lost == [id |-> "transition-0", from |-> "s1", to |-> "s9", label |-> Undefined]
      model(ns, ts) == [id |-> "g1", name |-> "Incident Workflow", code |-> "incident-workflow",
                        description |-> "Imported from XAML state machine", nodes |-> ns, transitions |-> ts]
      built == {model(<<>>, <<>>), model(<<open, closed>>, <<close>>), model(<<open>>, <<lost>>)}
  IN  IF ~dom THEN {Threw("DOMParser is not defined")}
      ELSE UNION {{Returned(WithPositions(m, pos)) : pos \in [1..Len(m.nodes) -> DagrePositions]} :
                    m \in built}

(***************************************************************************)
(* The contents and the format hints normalizeWorkflow is given.           *)
(***************************************************************************)
Absent == [t |-> "absent"]

PlainContent ==
  [lead |-> "", json |-> JInvalid, xmlDecl |-> FALSE, stateMachine |-> FALSE, netfx |-> FALSE,
   bpmnPrefix |-> FALSE, definitions |-> FALSE, process |-> FALSE, lines |-> <<>>, xml |-> <<>>]

JsonNodeElems ==
  {JNull,
   JStr("x"),
   JObj([id |-> "n1", type |-> "start", name |-> "Start"]),
   JObj([name |-> "B", position |-> [x |-> 10, y |-> 20]])}

JsonTransElems ==
  {JNull,
   JObj([from |-> "n1", to |-> "b"]),
   JObj([id |-> "t", source |-> "n1", target |-> "zz", label |-> "go"])}

JsonNodeOptions == {Absent, JStr("nodes")} \cup {JArr(s) : s \in SeqsUpTo(JsonNodeElems, MaxJsonNodes)}

JsonTransOptions == {Absent, JStr(""), JStr("x")} \cup {JArr(s) : s \in SeqsUpTo(JsonTransElems, MaxJsonTrans)}

JsonEdgeOptions == {Absent, JArr(<<JObj([source |-> "n1", target |-> "b"])>>)}

JsonObjectOf(opts) == [k \in {q \in DOMAIN opts : opts[q].t # "absent"} |-> opts[k]]

JsonObjects ==
  {JObj(JsonObjectOf([nodes |-> n, transitions |-> t, edges |-> e])) :
     n \in JsonNodeOptions, t \in JsonTransOptions, e \in JsonEdgeOptions}

JsonLead(j) == IF j.t = "arr" THEN "[" ELSE IF j.t = "null" THEN "" ELSE "{"

JsonContentOf(j) == [PlainContent EXCEPT !.lead = JsonLead(j), !.json = j, !.lines = <<<<"{">>, <<"}">>>>]

JsonContents ==
  {JsonContentOf(j) : j \in JsonObjects \cup {JObj([data |-> o]) : o \in JsonObjects}
                            \cup {JInvalid, JNull, JArr(<<>>)}}

HeaderLine == <<"f", "l", "o", "w", "c", "h", "a", "r", "t", " ", "T", "D">>

ScenarioLine1 == <<"A", "[", "S", "t", "a", "r", "t", " ", "T", "a", "s", "k", "]", "-", "-", ">",
                   "B", "{", "D", "e", "c", "i", "d", "e", "}">>

ScenarioLine2 == <<"B", "-", "-", ">", "|", "y", "e", "s", "|", "C", "[", "E", "n", "d", "]">>

SampleLines ==
  {ScenarioLine1,
   ScenarioLine2,
   <<"A", " ", "-", "-", ">", " ", "B">>,
   <<"B", "{", "D", "e", "c", "i", "d", "e", "}">>,
   <<"s", "t", "a", "r", "t", "1", "(", "(", "G", "o", ")", ")">>,
   <<"%", "%", " ", "n", "o", "t", "e">>,
   <<" ", "C", " ", "-", "-", " ", "A", " ">>,
   <<"A", "-", "-", ">", "|", "n", "o", " ", "B">>}

MermaidContents ==
  {[PlainContent EXCEPT !.lead = "flowchart ", !.lines = <<HeaderLine>> \o body] :
     body \in SeqsUpTo(SampleLines, MaxLines)}

SampleElements ==
  {[tag |-> "bpmn:startEvent", attrs |-> [id |-> "e1"]],
   [tag |-> "userTask", attrs |-> [name |-> "Review"]],
   [tag |-> "exclusiveGateway", attrs |-> [id |-> "gw", name |-> "Ok?"]],
   [tag |-> "bpmn:sequenceFlow", attrs |-> [id |-> "f1", sourceRef |-> "e1", targetRef |-> "gw"]],
   [tag |-> "sequenceFlow", attrs |-> [sourceRef |-> "e1"]]}

XmlContents ==
  {[PlainContent EXCEPT !.lead = "<", !.xmlDecl = TRUE, !.bpmnPrefix = TRUE, !.xml = els] :
     els \in SeqsUpTo(SampleElements, MaxElements)}
  \cup {[PlainContent EXCEPT !.lead = "<", !.stateMachine = TRUE],
        [PlainContent EXCEPT !.lead = "<", !.stateMachine = TRUE, !.bpmnPrefix = TRUE],
        [PlainContent EXCEPT !.lead = "<", !.definitions = TRUE],
        [PlainContent EXCEPT !.xmlDecl = TRUE, !.netfx = TRUE]}

TextContents ==
  {PlainContent,
   [PlainContent EXCEPT !.lead = "graph "],
   [PlainContent EXCEPT !.lead = "{", !.json = JObj(EmptyObject), !.xmlDecl = TRUE, !.stateMachine = TRUE]}

KnownFormats == {"xaml", "bpmn", "json", "mermaid", "natural"}

Hints == {Undefined, "yaml"} \cup KnownFormats

\* models as the parsers and the mutation engine build them, held when the export handler runs
ExportWorkflows ==
  LET nodes == {[id |-> "n1", type |-> "start", name |-> "Open", position |-> [x |-> 50, y |-> 50]],
                [id |-> "n2", type |-> "task", name |-> "Node", position |-> Origin],
                [id |-> "n3", type |-> "task", name |-> "Review", position |-> [x |-> 50, y |-> 200],
                 description |-> "second look", assignee |-> "ann", formRef |-> "review-form"]}
      transitions == {[id |-> "transition-0", from |-> "n1", to |-> "n2", label |-> Undefined],
                      [id |-> "t2", from |-> "", to |-> "n3", label |-> "go", condition |-> "c"]}
  IN  {[id |-> "wf", name |-> "Incident Workflow", code |-> "incident-workflow",
        description |-> Undefined, nodes |-> ns, transitions |-> ts] :
         ns \in SeqsUpTo(nodes, MaxJsonNodes), ts \in SeqsUpTo(transitions, MaxJsonTrans)}

\* what the generateId() calls of one parse return: one for the process, one per node or transition
GenChoices == [1..(1 + MaxJsonNodes + MaxJsonTrans) -> GenIds]

(***************************************************************************)
(* normalizeWorkflow, and the uploader's export handler feeding it.        *)
(***************************************************************************)
Failure(format, message) == [success |-> FALSE, format |-> format, error |-> message]

\* warnings: warnings.length > 0 ? warnings : undefined
Success(wf, format, warnings) ==
  IF Len(warnings) > 0
    THEN [success |-> TRUE, workflow |-> wf, format |-> format, warnings |-> warnings]
    ELSE [success |-> TRUE, workflow |-> wf, format |-> format]

\* the steps an exception of which the catch clause receives
CatchesAfterParse(at) == at \in {"validate", "layout"}

Catches(at) == at \in {"parse", "validate", "layout"}

\* handleExportJson: JSON.stringify(workflow), later handed to normalizeWorkflow
HandleExportJson ==
  /\ npc = "export"
  /\ ncontent' = JsonContentOf(StringifyWorkflow(uworkflow))
  /\ npc' = "start"
  /\ UNCHANGED <<nhint, ndom, nformat, nworkflow, nwarnings, nresult, nparsed, nreturned, nthrew,
                 nsource, uworkflow>>
  /\ UNCHANGED otherThanNormalize

\* const format = formatHint || detectFormat(content)
NormalizeStart ==
  /\ npc = "start"
  /\ nformat' = IF Truthy(nhint) THEN nhint ELSE DetectFormat(ncontent)
  /\ npc' = "switch"
  /\ UNCHANGED <<ncontent, nhint, ndom, nworkflow, nwarnings, nresult, nparsed, nreturned, nthrew,
                 nsource, uworkflow>>
  /\ UNCHANGED otherThanNormalize

\* a parser has returned or thrown
ParserDone(out) ==
  /\ IF out.ok
       THEN /\ nworkflow' = out.workflow
            /\ nparsed' = out.workflow
            /\ nreturned' = TRUE
            /\ npc' = "validate"
            /\ UNCHANGED <<nresult, nthrew>>
       ELSE /\ nthrew' = TRUE
            /\ IF Catches("parse")
                 THEN /\ nresult' = Failure(nformat, out.error)
                      /\ npc' = "done"
                 ELSE /\ npc' = "rejected"
                      /\ UNCHANGED nresult
            /\ UNCHANGED <<nworkflow, nparsed, nreturned>>
  /\ UNCHANGED <<ncontent, nhint, ndom, nformat, nwarnings, nsource, uworkflow>>
  /\ UNCHANGED otherThanNormalize

ParseXaml ==
  /\ npc = "switch"
  /\ nformat = "xaml"
  /\ \E out \in ParseXamlOutcomes(ndom) : ParserDone(out)

ParseBpmn ==
  /\ npc = "switch"
  /\ nformat = "bpmn"
  /\ \E gs \in GenChoices : ParserDone(ParseBpmnWorkflow(ncontent, gs, ndom))

ParseJson ==
  /\ npc = "switch"
  /\ nformat = "json"
  /\ \E gs \in GenChoices : ParserDone(ParseJsonWorkflow(ncontent, gs))

ParseMermaid ==
  /\ npc = "switch"
  /\ nformat = "mermaid"
  /\ \E gs \in GenChoices : ParserDone(ParseMermaidWorkflow(ncontent, gs))

RejectNatural ==
  /\ npc = "switch"
  /\ nformat = "natural"
  /\ nresult' = Failure(nformat, "Natural language workflows require AI interpretation. Use the chat to describe your workflow.")
  /\ npc' = "done"
  /\ UNCHANGED <<ncontent, nhint, ndom, nformat, nworkflow, nwarnings, nparsed, nreturned, nthrew,
                 nsource, uworkflow>>
  /\ UNCHANGED otherThanNormalize

RejectUnsupported ==
  /\ npc = "switch"
  /\ nformat \notin KnownFormats
  /\ nresult' = Failure(nformat, "Unsupported format")
  /\ npc' = "done"
  /\ UNCHANGED <<ncontent, nhint, ndom, nformat, nworkflow, nwarnings, nparsed, nreturned, nthrew,
                 nsource, uworkflow>>
  /\ UNCHANGED otherThanNormalize

\* validateWorkflow(workflow, warnings)
Validate ==
  /\ npc = "validate"
  /\ nwarnings' = ValidateWorkflow(nworkflow)
  /\ npc' = "layout"
  /\ UNCHANGED <<ncontent, nhint, ndom, nformat, nworkflow, nresult, nparsed, nreturned, nthrew,
                 nsource, uworkflow>>
  /\ UNCHANGED otherThanNormalize

\* await applyLayout(workflow), then the success envelope
LayoutAndReturn ==
  /\ npc = "layout"
  /\ IF SkipsDagre(nworkflow)
       THEN nworkflow' = nworkflow
       ELSE \E pos \in [1..Len(nworkflow.nodes) -> DagrePositions] : nworkflow' = WithPositions(nworkflow, pos)
  /\ nresult' = Success(nworkflow', nformat, nwarnings)
  /\ npc' = "done"
  /\ UNCHANGED <<ncontent, nhint, ndom, nformat, nwarnings, nparsed, nreturned, nthrew, nsource, uworkflow>>
  /\ UNCHANGED otherThanNormalize

InitNormalize ==
  /\ LayoutAtRest
  /\ MutationAtRest
  /\ XamlAtRest
  /\ VaultAtRest
  /\ UploadAtRest
  /\ nformat = ""
  /\ nworkflow = <<>>
  /\ nwarnings = <<>>
  /\ nresult = <<>>
  /\ nparsed = <<>>
  /\ nreturned = FALSE
  /\ nthrew = FALSE
  /\ \/ /\ nsource = "content"
        /\ npc = "start"
        /\ ncontent \in JsonContents \cup MermaidContents \cup XmlContents \cup TextContents
        /\ nhint \in Hints
        /\ ndom \in (IF ncontent.lead = "<" \/ ncontent.xmlDecl THEN BOOLEAN ELSE {TRUE})
        /\ uworkflow = <<>>
     \/ /\ nsource = "export"
        /\ npc = "export"
        /\ uworkflow \in ExportWorkflows
        /\ ncontent = PlainContent
        /\ nhint \in {Undefined, "json"}
        /\ ndom = TRUE

NextNormalize ==
  \/ HandleExportJson
  \/ NormalizeStart
  \/ ParseXaml
  \/ ParseBpmn
  \/ ParseJson
  \/ ParseMermaid
  \/ RejectNatural
  \/ RejectUnsupported
  \/ Validate
  \/ LayoutAndReturn

SpecNormalize == InitNormalize /\ [][NextNormalize]_vars

-----------------------------------------------------------------------------
(***************************************************************************)
(* Properties of the normalizer.                                           *)
(***************************************************************************)
WarningsOf(result) == IF Has(result, "warnings") THEN result.warnings ELSE <<>>

Warned(result, kind, of) ==
  \E i \in 1..Len(WarningsOf(result)) : WarningsOf(result)[i] = [kind |-> kind, of |-> of]

WarnedOf(result, kind) ==
  \E i \in 1..Len(WarningsOf(result)) : WarningsOf(result)[i] = [kind |-> kind]

\* the same model, positions aside
SameButPositions(a, b) ==
  /\ a.id = b.id /\ a.name = b.name /\ a.code = b.code /\ a.description = b.description
  /\ a.transitions = b.transitions
  /\ Len(a.nodes) = Len(b.nodes)
  /\ \A i \in 1..Len(a.nodes) :
       a.nodes[i].id = b.nodes[i].id /\ a.nodes[i].type = b.nodes[i].type /\ a.nodes[i].name = b.nodes[i].name

(* C7: whenever a parser has returned a model, normalizeWorkflow returns   *)
(* success true with that model, every declared node present; every        *)
(* transition end that matches no declared node, every isolated node (of   *)
(* more than one) and a missing start or end node appear as warnings.      *)
ValidationNeverFails ==
  (npc = "done" /\ nreturned) =>
    /\ nresult.success
    /\ Has(nresult, "workflow")
    /\ SameButPositions(nresult.workflow, nparsed)
    /\ LET m == nparsed
           declared == {m.nodes[i].id : i \in 1..Len(m.nodes)}
           ends == {m.transitions[j].from : j \in 1..Len(m.transitions)}
                   \cup {m.transitions[j].to : j \in 1..Len(m.transitions)}
       IN  /\ \A j \in 1..Len(m.transitions) :
                /\ m.transitions[j].from \notin declared => Warned(nresult, "unknown source", m.transitions[j].from)
                /\ m.transitions[j].to \notin declared => Warned(nresult, "unknown target", m.transitions[j].to)
           /\ \A i \in 1..Len(m.nodes) :
                (m.nodes[i].id \notin ends /\ Len(m.nodes) > 1) => Warned(nresult, "isolated", m.nodes[i].name)
           /\ (\A i \in 1..Len(m.nodes) : m.nodes[i].type # "start") => WarnedOf(nresult, "no start")
           /\ (\A i \in 1..Len(m.nodes) : m.nodes[i].type # "end") => WarnedOf(nresult, "no end")

\* a JSON model of two nodes whose transition n1 -> zz dangles has been accepted
DanglingAccepted ==
  /\ npc = "done"
  /\ nformat = "json"
  /\ nreturned
  /\ nresult.success
  /\ Len(nresult.workflow.nodes) = 2
  /\ Len(nparsed.transitions) = 1
  /\ nparsed.transitions[1].from = "n1"
  /\ nparsed.transitions[1].to = "zz"
  /\ Warned(nresult, "unknown target", "zz")
  /\ WarnedOf(nresult, "no end")

\* what parseJsonWorkflow reads the node list and the transition list from
JsonDataOf(content) ==
  IF content.json.t = "obj" /\ TruthyAt(content.json.v, "data") THEN content.json.v.data ELSE content.json

JsonListsMissing(content) ==
  LET data == JsonDataOf(content)
  IN  \/ data.t # "obj"
      \/ ~Has(data.v, "nodes")
      \/ data.v.nodes.t # "arr"
      \/ (~Has(data.v, "transitions") /\ ~Has(data.v, "edges"))

(* C8: normalizeWorkflow never rejects; what it returns has a workflow if  *)
(* and only if success is true, a failure is exactly success, format and   *)
(* error, a success carries the model a parser returned, and free text, an *)
(* unrecognized format, a JSON syntax error, a JSON payload without the    *)
(* node array or without transitions and edges, and every exception of a   *)
(* parser give a failure.                                                  *)
NormalizeNeverThrows ==
  /\ npc # "rejected"
  /\ npc = "done" =>
       /\ Has(nresult, "workflow") <=> nresult.success
       /\ ~nresult.success => DOMAIN nresult = {"success", "format", "error"}
       /\ nresult.success => nreturned
       /\ nresult.format = nformat
       /\ (\/ nformat = "natural"
           \/ nformat \notin KnownFormats
           \/ nthrew
           \/ (nformat = "json" /\ (ncontent.json.t = "invalid" \/ JsonListsMissing(ncontent))))
          => ~nresult.success

\* a JSON payload with a node array and neither transitions nor edges has been refused
MissingListRefused ==
  /\ npc = "done"
  /\ nformat = "json"
  /\ ncontent.json.t = "obj"
  /\ Has(ncontent.json.v, "nodes")
  /\ ncontent.json.v.nodes.t = "arr"
  /\ ~Has(ncontent.json.v, "transitions")
  /\ ~Has(ncontent.json.v, "edges")
  /\ nthrew
  /\ ~nresult.success
  /\ nresult.error = "Invalid workflow JSON: missing transitions/edges array"

\* id, from and to of a transition
EndsOf(t) == <<t.id, t.from, t.to>>

(* C9: a workflow the uploader holds, exported by JSON.stringify and read  *)
(* back by the JSON parser, comes back with the same sequence of node ids  *)
(* and the same sequence of transitions by id, from and to.                *)
RoundTripById ==
  (nsource = "export" /\ npc \in {"validate", "layout", "done", "rejected"}) =>
    /\ nformat = "json"
    /\ nreturned
    /\ Len(nparsed.nodes) = Len(uworkflow.nodes)
    /\ \A i \in 1..Len(uworkflow.nodes) : nparsed.nodes[i].id = uworkflow.nodes[i].id
    /\ Len(nparsed.transitions) = Len(uworkflow.transitions)
    /\ \A j \in 1..Len(uworkflow.transitions) : EndsOf(nparsed.transitions[j]) = EndsOf(uworkflow.transitions[j])

\* a workflow of two nodes and two transitions, one from the empty id, has made the round trip
RoundTripDone ==
  /\ nsource = "export"
  /\ npc = "done"
  /\ nresult.success
  /\ Len(uworkflow.nodes) = 2
  /\ uworkflow.nodes[1].id # uworkflow.nodes[2].id
  /\ Len(uworkflow.transitions) = 2
  /\ uworkflow.transitions[1].from = ""
  /\ uworkflow.transitions[2].label = Undefined
  /\ Len(nresult.workflow.transitions) = 2

\* the flow text of the scenario: flowchart TD / A[Start Task]-->B{Decide} / B-->|yes|C[End]
ScenarioGiven == ncontent.lines = <<HeaderLine, ScenarioLine1, ScenarioLine2>>

(* C10: parsing the flow text 'flowchart TD / A[Start Task]-->B{Decide} /  *)
(* B-->|yes|C[End]' yields exactly the nodes A, B, C of types task,        *)
(* gateway, task and exactly the transitions A -> B without label and      *)
(* B -> C with label "yes".                                                *)
ScenarioParsedAsSpecified ==
  (nsource = "content" /\ nformat = "mermaid" /\ nreturned /\ ScenarioGiven) =>
    /\ Len(nparsed.nodes) = 3
    /\ nparsed.nodes[1].id = <<"A">> /\ nparsed.nodes[1].type = "task"
    /\ nparsed.nodes[2].id = <<"B">> /\ nparsed.nodes[2].type = "gateway"
    /\ nparsed.nodes[3].id = <<"C">> /\ nparsed.nodes[3].type = "task"
    /\ Len(nparsed.transitions) = 2
    /\ nparsed.transitions[1].from = <<"A">> /\ nparsed.transitions[1].to = <<"B">>
    /\ nparsed.transitions[1].label = <<>>
    /\ nparsed.transitions[2].from = <<"B">> /\ nparsed.transitions[2].to = <<"C">>
    /\ nparsed.transitions[2].label = <<"y", "e", "s">>

\* the scenario has been parsed: A, B and C are tasks and the only transition is B -> C
ScenarioParsed ==
  /\ nsource = "content"
  /\ nformat = "mermaid"
  /\ nreturned
  /\ ScenarioGiven
  /\ npc = "done"
  /\ Len(nparsed.nodes) = 3
  /\ nparsed.nodes[1].id = <<"A">> /\ nparsed.nodes[1].type = "task"
  /\ nparsed.nodes[2].id = <<"B">> /\ nparsed.nodes[2].type = "task"
  /\ nparsed.nodes[3].id = <<"C">> /\ nparsed.nodes[3].type = "task"
  /\ Len(nparsed.transitions) = 1
  /\ nparsed.transitions[1].from = <<"B">> /\ nparsed.transitions[1].to = <<"C">>
  /\ nparsed.transitions[1].label = <<"y", "e", "s">>

\* the isolated-node warnings of a result, in order
IsolatedIn(result) ==
  LET isolated(w) == w.kind = "isolated"
  IN  SelectSeq(WarningsOf(result), isolated)

\* the nodes of a model that are an end of none of its transitions, in order
Unconnected(m) ==
  LET ends == {m.transitions[j].from : j \in 1..Len(m.transitions)}
              \cup {m.transitions[j].to : j \in 1..Len(m.transitions)}
      apart(n) == n.id \notin ends
  IN  SelectSeq(m.nodes, apart)

\* the JSON text {"nodes":[{"id":"n1","type":"start","name":"Start"}],"transitions":[]}
OneNodeGiven ==
  ncontent.json = JObj([nodes |-> JArr(<<JObj([id |-> "n1", type |-> "start", name |-> "Start"])>>),
                        transitions |-> JArr(<<>>)])

(* C11: the isolated-node warnings of a result are, one for one and in     *)
(* order, the nodes that are an end of no transition when the model has    *)
(* more than one node, and there is none when it has one node; the JSON    *)
(* text of one start node and no transition gives a success of one node    *)
(* whose only warning is the missing end node.                             *)
IsolatedExactly ==
  (npc = "done" /\ nreturned) =>
    /\ Len(IsolatedIn(nresult)) = (IF Len(nparsed.nodes) > 1 THEN Len(Unconnected(nparsed)) ELSE 0)
    /\ \A i \in 1..Len(IsolatedIn(nresult)) : IsolatedIn(nresult)[i].of = Unconnected(nparsed)[i].name
    /\ (nformat = "json" /\ OneNodeGiven) =>
         /\ nresult.success
         /\ Len(nresult.workflow.nodes) = 1
         /\ nresult.workflow.nodes[1].id = "n1"
         /\ nresult.warnings = <<[kind |-> "no end"]>>

\* the one-node text has been normalized: one node, the missing end node its only warning
OneNodeNormalized ==
  /\ npc = "done"
  /\ nformat = "json"
  /\ OneNodeGiven
  /\ nresult.success
  /\ Len(nresult.workflow.nodes) = 1
  /\ nresult.warnings = <<[kind |-> "no end"]>>

\* no two nodes of the model share an id that the input supplied (an id generateId made up aside)
SuppliedIdsDistinct(nodes) ==
  \A i, j \in 1..Len(nodes) : (i # j /\ nodes[i].id = nodes[j].id) => nodes[i].id \in GenIds

(* C12: in the model a success of normalizeWorkflow holds, no two nodes    *)
(* have the same id: a duplicate id of the input has been rejected or      *)
(* merged.                                                                 *)
NodeIdsUnique ==
  (npc = "done" /\ nresult.success) => SuppliedIdsDistinct(nresult.workflow.nodes)

\* the JSON text whose two nodes both carry the id n1 has been accepted with both nodes
DuplicateIdsReturned ==
  /\ npc = "done"
  /\ nformat = "json"
  /\ nresult.success
  /\ Len(nresult.workflow.nodes) = 2
  /\ nresult.workflow.nodes[1].id = "n1"
  /\ nresult.workflow.nodes[2].id = "n1"

\* whether a node sits at the origin
AtOrigin(n) == n.position.x = 0 /\ n.position.y = 0

(* C13: the layout step of normalizeWorkflow leaves every position as the  *)
(* parser returned it when the model has no node or every node is away     *)
(* from the origin; otherwise it runs, and every node the parser left at   *)
(* the origin has received coordinates.                                    *)
LayoutSkippedWhenAllPlaced ==
  (npc = "done" /\ nreturned) =>
    IF \A i \in 1..Len(nparsed.nodes) : ~AtOrigin(nparsed.nodes[i])
      THEN \A i \in 1..Len(nparsed.nodes) : nresult.workflow.nodes[i].position = nparsed.nodes[i].position
      ELSE \A i \in 1..Len(nparsed.nodes) : AtOrigin(nparsed.nodes[i]) => ~AtOrigin(nresult.workflow.nodes[i])

\* a model with one node placed and one at the origin has been returned with that node still at the origin
MixedPositionsSkipped ==
  /\ npc = "done"
  /\ nformat = "json"
  /\ nresult.success
  /\ Len(nparsed.nodes) = 2
  /\ AtOrigin(nparsed.nodes[1])
  /\ nparsed.nodes[2].position = [x |-> 10, y |-> 20]
  /\ AtOrigin(nresult.workflow.nodes[1])
  /\ nresult.workflow.nodes[2].position = [x |-> 10, y |-> 20]

\* the transition a call of applyMutation has put last
LastTransition == Deep(heap, updated).transitions[Len(Deep(heap, updated).transitions)]

(* C14: applyMutation with addTransition returns the argument's            *)
(* transitions followed by exactly one more, which carries the payload's   *)
(* from, to and label, and whose id is the payload's id when the payload   *)
(* has one and a synthesized id otherwise.                                 *)
AddTransitionKeepsId ==
  (argRef # Null /\ LastMutation.type = "addTransition") =>
    LET p == LastMutation.payload
        after == Deep(heap, updated).transitions
    IN  /\ Len(after) = Len(argBefore.transitions) + 1
        /\ SubSeq(after, 1, Len(argBefore.transitions)) = argBefore.transitions
        /\ LastTransition.from = p.from
        /\ LastTransition.to = p.to
        /\ LastTransition.label = p.label
        /\ LastTransition.id = (IF "id" \in DOMAIN p THEN p.id ELSE gens[mi - 1])

\* addTransition with the id t9 in its payload has appended a transition under a generated id
SuppliedIdReplaced ==
  /\ argRef # Null
  /\ LastMutation.type = "addTransition"
  /\ "id" \in DOMAIN LastMutation.payload
  /\ LastMutation.payload.id = "t9"
  /\ Len(Deep(heap, updated).transitions) = Len(argBefore.transitions) + 1
  /\ LastTransition.from = "n1"
  /\ LastTransition.label = "via"
  /\ LastTransition.id \in GenIds

\* the ids of S and of every node from which a node of S can be reached along the adjacency lists
RECURSIVE WithAncestors(_)
WithAncestors(S) ==
  LET more == S \cup UNION {Range(incoming[n]) : n \in S}
  IN  IF more = S THEN S ELSE WithAncestors(more)

\* the nodes the dfs calls of the first root loop visit: the start nodes and their ancestors
ReachedFromRoots == WithAncestors({StartNodes(lnodes, ltrans)[i].id : i \in 1..Len(StartNodes(lnodes, ltrans))})

\* the largest layer among the nodes reached from the roots
MaxReachedLayer == CHOOSE l \in {nodeLayer[r] : r \in ReachedFromRoots} : \A r \in ReachedFromRoots : nodeLayer[r] <= l

LooksXml(content) == content.xmlDecl \/ content.lead = "<"

(* C16: without a format hint the format is one of the five tags: json for *)
(* every text that parses as JSON, whatever else it holds; otherwise xaml  *)
(* for XML-looking text with a StateMachine marker, else bpmn for          *)
(* XML-looking text with the definitions/process markers; otherwise        *)
(* mermaid for text starting with graph, flowchart or stateDiagram;        *)
(* otherwise natural.                                                      *)
DetectionFollowsPrecedence ==
  (nsource = "content" /\ npc # "start" /\ nhint = Undefined) =>
    /\ nformat \in KnownFormats
    /\ nformat = (IF ncontent.json.t # "invalid" THEN "json"
                  ELSE IF LooksXml(ncontent) /\ (ncontent.stateMachine \/ ncontent.netfx) THEN "xaml"
                  ELSE IF LooksXml(ncontent)
                          /\ (ncontent.bpmnPrefix \/ (ncontent.definitions /\ ncontent.process)) THEN "bpmn"
                  ELSE IF ncontent.lead \in {"graph ", "flowchart ", "stateDiagram"} THEN "mermaid"
                  ELSE "natural")

\* the text null, which parses as JSON, has been tagged natural and refused as free text
ScalarJsonTaggedNatural ==
  /\ nsource = "content"
  /\ npc = "done"
  /\ nhint = Undefined
  /\ ncontent.json = JNull
  /\ ncontent.lead = ""
  /\ nformat = "natural"
  /\ ~nresult.success

\* the fields of a node and of a transition that an export is to keep
NodeFields == {"type", "name", "position", "description", "assignee", "formRef"}

TransitionFields == {"from", "to", "condition", "label"}

\* whether the object holds a value under the key
Present(r, k) == Has(r, k) /\ (k \in StringKeys => r[k] # Undefined)

\* r and q hold the same value, or both none, under each of the keys
SameFields(r, q, keys) ==
  \A k \in keys : /\ Present(r, k) <=> Present(q, k)
                  /\ Present(r, k) => q[k] = r[k]

(* C17: a workflow exported by JSON.stringify and read back by the JSON    *)
(* parser keeps, for every node, its type, name, position, description,    *)
(* assignee and formRef, and for every transition its from, to, condition  *)
(* and label.                                                              *)
ExportLossless ==
  (nsource = "export" /\ npc \in {"validate", "layout", "done"}) =>
    /\ Len(nparsed.nodes) = Len(uworkflow.nodes)
    /\ \A i \in 1..Len(uworkflow.nodes) : SameFields(uworkflow.nodes[i], nparsed.nodes[i], NodeFields)
    /\ Len(nparsed.transitions) = Len(uworkflow.transitions)
    /\ \A j \in 1..Len(uworkflow.transitions) :
         SameFields(uworkflow.transitions[j], nparsed.transitions[j], TransitionFields)

\* a node exported with description, assignee and formRef has come back without them
DescriptionDropped ==
  /\ nsource = "export"
  /\ npc = "done"
  /\ nresult.success
  /\ Len(uworkflow.nodes) = 1
  /\ uworkflow.nodes[1].id = "n3"
  /\ uworkflow.nodes[1].description = "second look"
  /\ nparsed.nodes[1].id = "n3"
  /\ DOMAIN nparsed.nodes[1] = {"id", "type", "name", "position"}

\* the elements of the node array a JSON text holds
JsonNodesOf(content) == JsonDataOf(content).v.nodes.v

\* whether the i-th node of the JSON text comes with a position
PositionSupplied(content, i) ==
  JsonNodesOf(content)[i].t = "obj" /\ Has(JsonNodesOf(content)[i].v, "position")

(* C18: in the model a parser returns to normalizeWorkflow every node is   *)
(* at the origin, a node of a JSON text that comes with a position aside.  *)
ParsersReturnOrigin ==
  (nreturned /\ npc \in {"validate", "layout", "done"}) =>
    \A i \in 1..Len(nparsed.nodes) :
      \/ AtOrigin(nparsed.nodes[i])
      \/ nformat = "json" /\ PositionSupplied(ncontent, i)

\* the state-machine parser has returned its two nodes placed, and the layout step has left them there
XamlReturnedPlaced ==
  /\ npc = "done"
  /\ nformat = "xaml"
  /\ nreturned
  /\ Len(nparsed.nodes) = 2
  /\ ~AtOrigin(nparsed.nodes[1])
  /\ ~AtOrigin(nparsed.nodes[2])
  /\ nresult.workflow.nodes = nparsed.nodes

-----------------------------------------------------------------------------
(***************************************************************************)
(* Longest-path layering on acyclic graphs.                                *)
(***************************************************************************)
\* No node is among its own ancestors along the kept transitions
Acyclic ==
  \A n \in NodeIdsOf(lnodes) : n \notin WithAncestors(Range(incoming[n]))

\* The layer the longest-path rule gives n from the layers of its predecessors
LongestPathLayer(n) ==
  IF Len(incoming[n]) = 0 THEN 0
  ELSE 1 + (CHOOSE m \in {nodeLayer[p] : p \in Range(incoming[n])} :
              \A p \in Range(incoming[n]) : nodeLayer[p] <= m)

(* C19: on an acyclic graph (transitions with an undeclared endpoint being  *)
(* discarded) the finished layering is exact longest-path: a node without  *)
(* predecessor has layer 0, every other node has one more than the highest *)
(* layer among its predecessors, whatever the order of nodes and           *)
(* transitions, and so every kept transition goes to a higher layer.       *)
LongestPathLayering ==
  (lpc = "done" /\ Len(lnodes) > 0 /\ Acyclic) =>
    /\ DOMAIN nodeLayer = NodeIdsOf(lnodes)
    /\ \A n \in NodeIdsOf(lnodes) : nodeLayer[n] = LongestPathLayer(n)
    /\ \A t \in Range(ValidTrans(lnodes, ltrans)) : nodeLayer[t.from] < nodeLayer[t.to]

\* C19 witness: the shortcut n1 -> n3 is listed before the path n1 -> n2 -> n3
\* and n3 still lies two layers below n1.
LongestPathTaken ==
  /\ lpc = "done"
  /\ Len(lnodes) = 3
  /\ Acyclic
  /\ Len(ltrans) = 3
  /\ ltrans[1] = [from |-> IdPool[1], to |-> IdPool[3]]
  /\ ltrans[2] = [from |-> IdPool[2], to |-> IdPool[3]]
  /\ ltrans[3] = [from |-> IdPool[1], to |-> IdPool[2]]
  /\ nodeLayer[IdPool[1]] = 0
  /\ nodeLayer[IdPool[2]] = 1
  /\ nodeLayer[IdPool[3]] = 2

-----------------------------------------------------------------------------
(***************************************************************************)
(* The order inside the layers after the sweeps.  A mean is kept as the    *)
(* pair (sum, count) of the ranks of a node's successors in the layer      *)
(* below, one per transition; count = 0 is a node with none.               *)
(***************************************************************************)
RankIn(layer, id) == CHOOSE k \in 1..Len(layer) : layer[k] = id

SuccessorMean(n, next) ==
  LET inNext(id) == id \in Range(next)
      hits == SelectSeq(outgoing[n], inNext)
  IN  [sum |-> SumSeq([i \in 1..Len(hits) |-> RankIn(next, hits[i])]),
       count |-> Len(hits)]

MeanLeq(a, b) ==
  \/ b.count = 0
  \/ a.count > 0 /\ a.sum * b.count <= b.sum * a.count

MeanEq(a, b) == MeanLeq(a, b) /\ MeanLeq(b, a)

\* The layers as the last backward pass finds them, and as they stand in that
\* pass once the layers below layer l have been ordered
LastSweepStart ==
  ForwardPass(Sweeps(GroupByLayer(nodeLayer, layerOrder), outgoing, SweepPasses - 1),
              outgoing, 2)

RECURSIVE BackwardDownTo(_, _, _)
BackwardDownTo(layers, i, stop) ==
  IF i < stop THEN layers
  ELSE BackwardDownTo(OrderLayerByBarycenter(layers, i, outgoing, "up"), i - 1, stop)

PriorOrder(start, l) == BackwardDownTo(start, Len(start) - 1, l + 1)[l]

(* C20: after the four sweeps every layer but the last is in non-decreasing *)
(* order of the mean final rank of its nodes' successors in the next layer, *)
(* counted per transition; nodes without successor there come after all    *)
(* that have one, and nodes of equal mean, or without successor, keep the   *)
(* relative order they had before the layer was last sorted.                *)
LayersSortedBySuccessors ==
  (lpc = "done" /\ Len(lnodes) > 0) =>
    \A start \in {LastSweepStart} : \A l \in 1..(Len(orderedLayers) - 1) :
      \A prior \in {PriorOrder(start, l)} :
        LET layer == orderedLayers[l]
            next == orderedLayers[l + 1]
        IN  /\ \A k \in 1..(Len(layer) - 1) :
                 MeanLeq(SuccessorMean(layer[k], next), SuccessorMean(layer[k + 1], next))
            /\ Range(prior) = Range(layer)
            /\ \A j \in 1..Len(prior) : \A k \in (j + 1)..Len(prior) :
                 MeanEq(SuccessorMean(prior[j], next), SuccessorMean(prior[k], next))
                   => RankIn(layer, prior[j]) < RankIn(layer, prior[k])

\* C20 witness: n1 -> n3, n1 -> n4, n2 -> n3.  The sweeps have turned the lower
\* layer into n4, n3; against these final ranks n1 has mean 3/2 and n2 mean 2.
MeanRankOrdered ==
  /\ lpc = "done"
  /\ Len(lnodes) = 4
  /\ ltrans = << [from |-> IdPool[1], to |-> IdPool[3]],
                 [from |-> IdPool[1], to |-> IdPool[4]],
                 [from |-> IdPool[2], to |-> IdPool[3]] >>
  /\ GroupByLayer(nodeLayer, layerOrder) = << <<IdPool[1], IdPool[2]>>, <<IdPool[3], IdPool[4]>> >>
  /\ orderedLayers = << <<IdPool[1], IdPool[2]>>, <<IdPool[4], IdPool[3]>> >>
  /\ SuccessorMean(IdPool[1], orderedLayers[2]) = [sum |-> 3, count |-> 2]
  /\ SuccessorMean(IdPool[2], orderedLayers[2]) = [sum |-> 2, count |-> 1]

-----------------------------------------------------------------------------
(***************************************************************************)
(* The coordinates of a finished layout.                                   *)
(***************************************************************************)
PositionOf(id) == lnodes[NodeMapIndex(lnodes, id)].position

\* along the layer (x top-to-bottom, y left-to-right) and across the layers
RankAxis(id) == IF ldir = "TB" THEN PositionOf(id).x ELSE PositionOf(id).y

LayerAxis(id) == IF ldir = "TB" THEN PositionOf(id).y ELSE PositionOf(id).x

RankStep == IF ldir = "TB" THEN nodeWidth + horizontalGap ELSE nodeHeight + verticalGap

LayerStep == IF ldir = "TB" THEN nodeHeight + verticalGap ELSE nodeWidth + horizontalGap

SharedAxis == IF ldir = "TB" THEN marginX + centerX ELSE marginY + centerY

LayerMargin == IF ldir = "TB" THEN marginY ELSE marginX

(* C21: every layer is centred on one shared axis.  Top to bottom, the      *)
(* midpoint between the x of a layer's first and last node is 450 whatever  *)
(* the size of the layer, consecutive nodes of a layer are 230 apart and    *)
(* y = marginY + layerIndex * 150; left to right the layer gives x (steps   *)
(* of 230 from marginX) and the rank gives y (150 apart, midpoint 350).     *)
LayersCentred ==
  (lpc = "done" /\ Len(lnodes) > 0) =>
    \A l \in 1..Len(orderedLayers) :
      LET layer == orderedLayers[l]
      IN  /\ RankAxis(layer[1]) + RankAxis(layer[Len(layer)]) = 2 * SharedAxis
          /\ \A k \in 1..(Len(layer) - 1) :
               RankAxis(layer[k + 1]) - RankAxis(layer[k]) = RankStep
          /\ \A k \in 1..Len(layer) :
               LayerAxis(layer[k]) = LayerMargin + (l - 1) * LayerStep

\* C21 witness: top to bottom, n1 alone above n2, n3, n4; both layers have
\* their midpoint at x = 450.
UnevenLayersCentred ==
  /\ lpc = "done"
  /\ ldir = "TB"
  /\ Len(lnodes) = 4
  /\ orderedLayers = << <<IdPool[1]>>, <<IdPool[2], IdPool[3], IdPool[4]>> >>
  /\ PositionOf(IdPool[1]) = [x |-> 450, y |-> 50]
  /\ PositionOf(IdPool[2]) = [x |-> 220, y |-> 200]
  /\ PositionOf(IdPool[3]) = [x |-> 450, y |-> 200]
  /\ PositionOf(IdPool[4]) = [x |-> 680, y |-> 200]

\* the layer of the finished layout that lists id
LayerIndexOf(id) == CHOOSE l \in 1..Len(orderedLayers) : id \in Range(orderedLayers[l])

Distance(a, b) == IF a >= b THEN a - b ELSE b - a

-----------------------------------------------------------------------------
(***************************************************************************)
(* The state-machine parser, parseXamlWorkflow of src/lib/xaml-parser.ts,  *)
(* step by step.  A document is what the DOM queries give: its State       *)
(* elements in document order, each with its x:Name and DisplayName        *)
(* attributes ("" and <<>> when absent or empty) and, per Transition       *)
(* child, the DisplayName and the reference id lines 137-152 resolve (""   *)
(* when there is none), and the x:Name of the initial state element.       *)
(* Display names are sequences of characters.                              *)
(***************************************************************************)
MaxStateElements == 3
MaxXamlTransitions == 2

XamlRefs == {"s1", "s2", "s3"}

\* generateId() of extractStates, for the element at a document position
GeneratedRefs == <<"x1", "x2", "x3", "x4">>

UnknownName == <<"U", "n", "k", "n", "o", "w", "n">>

MarkClose == <<"B", "/", "M", "a", "r", "k", ":", " ", "C", "l", "o", "s", "e">>

DisplayNameRows ==
  { <<<<>>, <<>>, <<>>, <<>>>>,
    << <<"O", "p", "e", "n">>,
       <<"S", "t", "o", "c", "k", " ", "C", "h", "e", "c", "k">>,
       <<"C", "l", "o", "s", "e", "d">>,
       <<"G", "a", "t", "e", "w", "a", "y">> >> }

TransitionsOf(edges, i) ==
  LET mine(e) == e[1] = i
      parsed(e) == [displayName |-> MarkClose, toRefId |-> e[2]]
  IN  SeqMap(parsed, SelectSeq(edges, mine))

\* A document of n State elements
XamlDoc(n, init, xn, row, edges) ==
  [initial |-> init,
   elements |-> [i \in 1..n |-> [xName |-> xn[i], displayName |-> row[i],
                                 transitions |-> TransitionsOf(edges, i)]]]

\* extractStates (lines 121-172): one state per reference id, the first
\* element that carries it; an element without x:Name gets a generated id
RECURSIVE ExtractStates(_, _, _)
ExtractStates(elements, i, acc) ==
  IF i > Len(elements) THEN acc
  ELSE LET el == elements[i]
           name == IF el.displayName # <<>> THEN el.displayName ELSE UnknownName
           refId == IF el.xName # "" THEN el.xName ELSE GeneratedRefs[i]
           found == \E k \in 1..Len(acc) : acc[k].refId = refId
       IN  ExtractStates(elements, i + 1,
             IF found THEN acc
             ELSE Append(acc, [name |-> name, refId |-> refId, transitions |-> el.transitions]))

\* stateMap.get(refId): the position of the state in states, 0 for undefined
StateMapGet(sts, refId) ==
  IF \E k \in 1..Len(sts) : sts[k].refId = refId
    THEN CHOOSE k \in 1..Len(sts) : sts[k].refId = refId
    ELSE 0

\* lines 56-64
XamlNodeType(state, initial) ==
  LET nameLower == ToLowerCase(state.name)
  IN  IF state.refId = initial THEN "start"
      ELSE IF nameLower = <<"c", "l", "o", "s", "e", "d">> THEN "end"
      ELSE IF Includes(nameLower, <<"c", "h", "e", "c", "k">>)
              \/ Includes(nameLower, <<"g", "a", "t", "e", "w", "a", "y">>) THEN "gateway"
      ELSE "task"

XamlNode(state, initial) ==
  [id |-> state.refId, type |-> XamlNodeType(state, initial), name |-> state.name,
   position |-> Origin]

\* cleanTransitionLabel (lines 177-195) for display names of at most 25
\* characters that hold no entity: the B/Mark prefix is removed
CleanTransitionLabel(displayName) ==
  LET lower == ToLowerCase(displayName)
      mark == <<"b", "/", "m", "a", "r", "k">>
      afterMark == IF StartsWith(lower, mark)
                     THEN (IF At(displayName, Len(mark) + 1) = ":" THEN Len(mark) + 2
                           ELSE Len(mark) + 1)
                     ELSE 1
      from == IF StartsWith(lower, mark) THEN SkipSpaces(displayName, afterMark) ELSE 1
  IN  SubSeq(displayName, from, Len(displayName))

TransitionIdNames == <<"transition-0", "transition-1", "transition-2", "transition-3">>

\* `transition-${n}`
TransitionIdOf(n) == TransitionIdNames[n + 1]

\* Variant: the guard of processState never finds a state processed
ProcessedNever(processed, refId) == FALSE

\* processedNodes.has(state.refId), line 52
Processed(processed, refId) == refId \in processed

\* a processState call that got past its guard (lines 52-71)
XamlFrame(k) == [state |-> k, i |-> 1]

XamlBegin ==
  /\ xpc = "start"
  /\ LET sts == ExtractStates(xdoc.elements, 1, <<>>)
         k == StateMapGet(sts, xdoc.initial)
     IN  /\ states' = sts
         /\ initialRefId' = xdoc.initial
         /\ xcalls' = [r \in {sts[j].refId : j \in 1..Len(sts)} |->
                         IF k > 0 /\ sts[k].refId = r THEN 1 ELSE 0]
         /\ IF k > 0
              THEN /\ processedNodes' = {sts[k].refId}
                   /\ xnodes' = <<XamlNode(sts[k], xdoc.initial)>>
                   /\ xstack' = <<XamlFrame(k)>>
              ELSE /\ processedNodes' = {}
                   /\ xnodes' = <<>>
                   /\ xstack' = <<>>
  /\ xtransitions' = <<>>
  /\ transitionId' = 0
  /\ restIdx' = 1
  /\ xpc' = "walk"
  /\ xsteps' = xsteps + 1
  /\ UNCHANGED otherThanXaml
  /\ UNCHANGED <<xdoc, xresult>>

\* One iteration of state.transitions.forEach of the innermost call (74-89)
XamlTransitionReady ==
  /\ xpc = "walk"
  /\ xstack # <<>>
  /\ xstack[Len(xstack)].i <= Len(states[xstack[Len(xstack)].state].transitions)

XamlTransition ==
  /\ XamlTransitionReady
  /\ LET top == Len(xstack)
         f == xstack[top]
         state == states[f.state]
         trans == state.transitions[f.i]
         k == StateMapGet(states, trans.toRefId)
         stepped == [xstack EXCEPT ![top].i = @ + 1]
     IN  IF trans.toRefId = ""
           THEN /\ xstack' = stepped
                /\ UNCHANGED <<xtransitions, transitionId, xnodes, processedNodes, xcalls>>
           ELSE /\ xtransitions' = Append(xtransitions,
                                     [id |-> TransitionIdOf(transitionId),
                                      from |-> state.refId,
                                      to |-> trans.toRefId,
                                      label |-> CleanTransitionLabel(trans.displayName)])
                /\ transitionId' = transitionId + 1
                /\ IF k > 0 /\ ~Processed(processedNodes, trans.toRefId)
                     THEN /\ processedNodes' = processedNodes \cup {trans.toRefId}
                          /\ xnodes' = Append(xnodes, XamlNode(states[k], initialRefId))
                          /\ xstack' = Append(stepped, XamlFrame(k))
                          /\ xcalls' = [xcalls EXCEPT ![trans.toRefId] = @ + 1]
                     ELSE /\ xstack' = stepped
                          /\ UNCHANGED <<xnodes, processedNodes, xcalls>>
  /\ xsteps' = xsteps + 1
  /\ UNCHANGED otherThanXaml
  /\ UNCHANGED <<xpc, xdoc, states, initialRefId, restIdx, xresult>>

\* The innermost call has gone through its transitions and returns
XamlReturnReady ==
  /\ xpc = "walk"
  /\ xstack # <<>>
  /\ xstack[Len(xstack)].i > Len(states[xstack[Len(xstack)].state].transitions)

XamlReturn ==
  /\ XamlReturnReady
  /\ xstack' = SubSeq(xstack, 1, Len(xstack) - 1)
  /\ xsteps' = xsteps + 1
  /\ UNCHANGED otherThanXaml
  /\ UNCHANGED <<xpc, xdoc, states, initialRefId, xnodes, xtransitions, processedNodes, transitionId,
                 restIdx, xresult, xcalls>>

\* One iteration of the loop over the remaining states (lines 99-103)
XamlRestReady ==
  /\ xpc = "walk"
  /\ xstack = <<>>
  /\ restIdx <= Len(states)

XamlRest ==
  /\ XamlRestReady
  /\ LET state == states[restIdx]
     IN  IF Processed(processedNodes, state.refId)
           THEN UNCHANGED <<processedNodes, xnodes, xstack, xcalls>>
           ELSE /\ processedNodes' = processedNodes \cup {state.refId}
                /\ xnodes' = Append(xnodes, XamlNode(state, initialRefId))
                /\ xstack' = <<XamlFrame(restIdx)>>
                /\ xcalls' = [xcalls EXCEPT ![state.refId] = @ + 1]
  /\ restIdx' = restIdx + 1
  /\ xsteps' = xsteps + 1
  /\ UNCHANGED otherThanXaml
  /\ UNCHANGED <<xpc, xdoc, states, initialRefId, xtransitions, transitionId, xresult>>

\* applyDagreLayout and the return (lines 105-115)
XamlFinishReady ==
  /\ xpc = "walk"
  /\ xstack = <<>>
  /\ restIdx > Len(states)

XamlFinish ==
  /\ XamlFinishReady
  /\ \E pos \in [1..Len(xnodes) -> DagrePositions] :
       LET built == [id |-> "g1", name |-> "Incident Workflow", code |-> "incident-workflow",
                     description |-> "Imported from XAML state machine",
                     nodes |-> xnodes, transitions |-> xtransitions]
       IN  /\ xresult' = WithPositions(built, pos)
           /\ xnodes' = xresult'.nodes
  /\ xpc' = "done"
  /\ UNCHANGED otherThanXaml
  /\ UNCHANGED <<xdoc, states, initialRefId, xtransitions, processedNodes, transitionId, xstack,
                 restIdx, xcalls, xsteps>>

InitXaml ==
  /\ LayoutAtRest
  /\ MutationAtRest
  /\ NormalizeAtRest
  /\ VaultAtRest
  /\ UploadAtRest
  /\ xpc = "start"
  /\ \E n \in 0..MaxStateElements :
       \E init \in {"", "s1", "s2"}, xn \in [1..n -> XamlRefs \cup {""}], row \in DisplayNameRows :
         \E edges \in SeqsUpTo((1..n) \X (XamlRefs \cup {""}), MaxXamlTransitions) :
           xdoc = XamlDoc(n, init, xn, row, edges)
  /\ states = <<>>
  /\ initialRefId = ""
  /\ xnodes = <<>>
  /\ xtransitions = <<>>
  /\ processedNodes = {}
  /\ transitionId = 0
  /\ xstack = <<>>
  /\ restIdx = 0
  /\ xresult = <<>>
  /\ xcalls = <<>>
  /\ xsteps = 0

NextXaml ==
  \/ XamlBegin
  \/ XamlTransition
  \/ XamlReturn
  \/ XamlRest
  \/ XamlFinish

SpecXaml == InitXaml /\ [][NextXaml]_vars

-----------------------------------------------------------------------------
(***************************************************************************)
(* The order in which the state-machine parser emits its nodes.            *)
(***************************************************************************)
\* the reference id of the element at document position i
ElementRef(i) ==
  IF xdoc.elements[i].xName # "" THEN xdoc.elements[i].xName ELSE GeneratedRefs[i]

\* the reference ids in document order, each at its first occurrence
DocumentOrder ==
  LET first(i) == \A j \in 1..(i - 1) : ElementRef(j) # ElementRef(i)
      firsts == SelectSeq([i \in 1..Len(xdoc.elements) |-> i], first)
  IN  [k \in 1..Len(firsts) |-> ElementRef(firsts[k])]

\* the transitions of the first element that carries ref
DeclaredTargets(ref) ==
  LET i == CHOOSE j \in 1..Len(xdoc.elements) :
             ElementRef(j) = ref /\ \A h \in 1..(j - 1) : ElementRef(h) # ref
      ts == xdoc.elements[i].transitions
  IN  [k \in 1..Len(ts) |-> ts[k].toRefId]

\* depth-first pre-order: ref, then what each of its targets reaches, in
\* declaration order, states already listed being passed over
RECURSIVE PreOrder(_, _, _)
PreOrder(targets, i, listed) ==
  IF i > Len(targets) THEN listed
  ELSE LET ref == targets[i]
       IN  IF ref \in Range(DocumentOrder) /\ ref \notin Range(listed)
             THEN PreOrder(targets, i + 1, PreOrder(DeclaredTargets(ref), 1, Append(listed, ref)))
             ELSE PreOrder(targets, i + 1, listed)

ReachedInPreOrder == PreOrder(<<xdoc.initial>>, 1, <<>>)

UnreachedInDocumentOrder ==
  LET unreached(ref) == ref \notin Range(ReachedInPreOrder)
  IN  SelectSeq(DocumentOrder, unreached)

EmittedIds == [k \in 1..Len(xnodes) |-> xnodes[k].id]

(* C22: the state-machine parser emits first the states reachable from the *)
(* initial state, in depth-first pre-order along the transitions in         *)
(* declaration order, then all states not reached from the initial state,   *)
(* in document order; a state that occurs several times gives one node.     *)
XamlEmissionOrder ==
  xpc = "done" => EmittedIds = ReachedInPreOrder \o UnreachedInDocumentOrder

\* C22, the emitted nodes differ from that order: without a resolvable
\* initial state, s1 -> s3 is declared before s2 and s3, and s3 is emitted
\* before s2.
UnreachedOutOfDocumentOrder ==
  /\ xpc = "done"
  /\ xdoc.initial = ""
  /\ DocumentOrder = <<"s1", "s2", "s3">>
  /\ DeclaredTargets("s1") = <<"s3">>
  /\ ReachedInPreOrder = <<>>
  /\ EmittedIds = <<"s1", "s3", "s2">>

-----------------------------------------------------------------------------
\* the transitions the extracted states declare
DeclaredTransitions == SumSeq([k \in 1..Len(states) |-> Len(states[k].transitions)])

(* C27: the traversal of the state-machine parser terminates on state      *)
(* graphs with cycles and self-transitions: processState gets past its     *)
(* guard at most once per reference id, the recursion is never deeper than *)
(* the number of states, the loop steps taken are at most 1 + 2 * states + *)
(* transitions, and until the parser returns a next step is enabled; when  *)
(* it returns every extracted state has been visited exactly once, there   *)
(* is one node per distinct reference id, and the k-th transition emitted  *)
(* has the id transition-(k-1), so the transition ids are distinct.        *)
XamlTraversalTerminates ==
  /\ \A r \in DOMAIN xcalls : xcalls[r] <= 1
  /\ Len(xstack) <= Len(states)
  /\ xsteps <= 1 + 2 * Len(states) + DeclaredTransitions
  /\ xpc = "walk" => XamlTransitionReady \/ XamlReturnReady \/ XamlRestReady \/ XamlFinishReady
  /\ xpc = "done" =>
       /\ \A r \in Range(DocumentOrder) : xcalls[r] = 1
       /\ Len(xnodes) = Cardinality(Range(DocumentOrder))
       /\ Cardinality(Range(EmittedIds)) = Len(xnodes)
       /\ \A k \in 1..Len(xtransitions) : xtransitions[k].id = TransitionIdOf(k - 1)
       /\ \A j, k \in 1..Len(xtransitions) : xtransitions[j].id = xtransitions[k].id => j = k

\* C27 witness: the cycle s1 -> s2 -> s1 from the initial state s1 has been
\* walked, two nodes and the transitions transition-0 and transition-1
XamlCycleWalked ==
  /\ xpc = "done"
  /\ xdoc.initial = "s1"
  /\ DocumentOrder = <<"s1", "s2">>
  /\ DeclaredTargets("s1") = <<"s2">>
  /\ DeclaredTargets("s2") = <<"s1">>
  /\ EmittedIds = <<"s1", "s2">>
  /\ Len(xtransitions) = 2
  /\ xtransitions[1].id = "transition-0"
  /\ xtransitions[2].id = "transition-1"
  /\ xtransitions[2].to = "s1"

-----------------------------------------------------------------------------
(***************************************************************************)
(* First-seen identity in the flow-text parser.                            *)
(***************************************************************************)
FlowLines == ContentLines(ncontent.lines)

\* line i declares id, or has an edge from or to id
DeclaredOn(id, i) == NodeMatch(FlowLines[i]).matched /\ NodeMatch(FlowLines[i]).id = id

EdgeOn(id, i) ==
  /\ TransMatch(FlowLines[i]).matched
  /\ id \in {TransMatch(FlowLines[i]).from, TransMatch(FlowLines[i]).to}

SeenOn(id, i) == DeclaredOn(id, i) \/ EdgeOn(id, i)

SeenIds ==
  {NodeMatch(FlowLines[i]).id : i \in {j \in 1..Len(FlowLines) : NodeMatch(FlowLines[j]).matched}}
  \cup UNION {{TransMatch(FlowLines[i]).from, TransMatch(FlowLines[i]).to} :
                i \in {j \in 1..Len(FlowLines) : TransMatch(FlowLines[j]).matched}}

\* the node the first line that shows id makes of it: the declaration when
\* that line declares it, else a task named by its id
FirstSeenNode(id) ==
  LET i == CHOOSE j \in 1..Len(FlowLines) : SeenOn(id, j) /\ \A h \in 1..(j - 1) : ~SeenOn(id, h)
      nm == NodeMatch(FlowLines[i])
  IN  IF DeclaredOn(id, i)
        THEN [id |-> id, type |-> NodeTypeOf(nm), name |-> nm.label, position |-> Origin]
        ELSE [id |-> id, type |-> "task", name |-> id, position |-> Origin]

(* C23: in the flow-text parser first-seen identity wins: an endpoint of   *)
(* an edge that is not yet declared becomes a task node named by its id,   *)
(* and once an id has a node no later declaration or edge changes its      *)
(* type or name or adds a second node with the id, in whatever order       *)
(* declaration and edge lines come.                                        *)
FirstSeenWins ==
  (nreturned /\ nformat = "mermaid") =>
    /\ {nparsed.nodes[k].id : k \in 1..Len(nparsed.nodes)} = SeenIds
    /\ \A j, k \in 1..Len(nparsed.nodes) : nparsed.nodes[j].id = nparsed.nodes[k].id => j = k
    /\ \A k \in 1..Len(nparsed.nodes) : nparsed.nodes[k] = FirstSeenNode(nparsed.nodes[k].id)

\* C23 witness: the edge A --> B comes before the declaration B{Decide}; B
\* is the task named B the edge made of it.
EdgeBeforeDeclaration ==
  /\ nreturned
  /\ nformat = "mermaid"
  /\ FlowLines = << <<"A", " ", "-", "-", ">", " ", "B">>,
                    <<"B", "{", "D", "e", "c", "i", "d", "e", "}">> >>
  /\ Len(nparsed.nodes) = 2
  /\ EdgeOn(nparsed.nodes[2].id, 1)
  /\ DeclaredOn(nparsed.nodes[2].id, 2)
  /\ NodeTypeOf(NodeMatch(FlowLines[2])) = "gateway"
  /\ nparsed.nodes[2].type = "task"
  /\ nparsed.nodes[2].name = nparsed.nodes[2].id

-----------------------------------------------------------------------------
(***************************************************************************)
(* Referential integrity and the frame of applyMutation.                   *)
(***************************************************************************)
IdsIn(wf) == {wf.nodes[i].id : i \in 1..Len(wf.nodes)}

\* every transition of wf names existing nodes
Integrity(wf) ==
  \A i \in 1..Len(wf.transitions) :
    wf.transitions[i].from \in IdsIn(wf) /\ wf.transitions[i].to \in IdsIn(wf)

\* an addTransition names two nodes of the workflow it is applied to
NamesExisting(mutation, wf) ==
  mutation.type = "addTransition" =>
    mutation.payload.from \in IdsIn(wf) /\ mutation.payload.to \in IdsIn(wf)

(* C24: mutation sequences keep referential integrity: when applyMutation  *)
(* is called on a workflow all of whose transitions name existing nodes,   *)
(* with a mutation that, if it is an addTransition, names two nodes        *)
(* existing at that moment, every transition of the result names existing  *)
(* nodes; this holds at every call of a sequence, whose result is the      *)
(* argument of the next call.                                              *)
IntegrityKept ==
  (argRef # Null /\ Integrity(argBefore) /\ NamesExisting(LastMutation, argBefore)) =>
    Integrity(Deep(heap, updated))

\* C24 witness: on n1, n2 without dangling transition, addTransition
\* n1 -> n2 and then removeNode n2 have run; the added transition is gone
\* with the node.
TransitionAddedThenNodeRemoved ==
  /\ mpc = "loop"
  /\ mi = 3
  /\ Integrity(roundStart)
  /\ Len(roundStart.nodes) = 2
  /\ mutations[1].type = "addTransition"
  /\ NamesExisting(mutations[1], roundStart)
  /\ mutations[2] = [type |-> "removeNode", payload |-> [id |-> mutations[1].payload.to]]
  /\ Len(argBefore.transitions) = Len(roundStart.transitions) + 1
  /\ Len(Deep(heap, updated).nodes) = 1
  /\ Len(Deep(heap, updated).transitions) < Len(argBefore.transitions)
  /\ Integrity(Deep(heap, updated))

\* the position of the first element of list that passes, 0 when none does
FirstIndex(list, Passes(_)) ==
  IF \E i \in 1..Len(list) : Passes(list[i])
    THEN CHOOSE i \in 1..Len(list) : Passes(list[i]) /\ \A j \in 1..(i - 1) : ~Passes(list[j])
    ELSE 0

\* after differs from before at most at position k, and there only in fields
SameBut(before, after, k, fields) ==
  /\ Len(after) = Len(before)
  /\ \A i \in 1..Len(before) :
       IF i = k
         THEN /\ DOMAIN before[i] \subseteq DOMAIN after[i]
              /\ \A f \in DOMAIN before[i] \ fields : after[i][f] = before[i][f]
         ELSE after[i] = before[i]

(* C25: applyMutation changes only what the operation targets.  The id,    *)
(* name, code and description of the process are unchanged; addNode and    *)
(* addTransition append one element at the end of their list; removeNode   *)
(* and removeTransition leave the other nodes and transitions unchanged    *)
(* and in order; updateNode and updateTransition change only the first     *)
(* matching element, and only in the fields of the payload; with no        *)
(* matching element, or an unknown mutation type, the result is equal to   *)
(* the argument.                                                           *)
OnlyTargetChanged ==
  argRef # Null =>
    LET before == argBefore
        after == Deep(heap, updated)
        m == LastMutation
        p == m.payload
        otherNode(n) == n.id # p.id
        unrelated(t) == t.from # p.id /\ t.to # p.id
        hasId(n) == n.id = p.id
        matches(t) == t.from = p.from /\ t.to = p.to
        otherTrans(t) == ~matches(t)
    IN  /\ after.id = before.id /\ after.name = before.name
        /\ after.code = before.code /\ after.description = before.description
        /\ CASE m.type = "addNode" ->
                  /\ Len(after.nodes) = Len(before.nodes) + 1
                  /\ SubSeq(after.nodes, 1, Len(before.nodes)) = before.nodes
                  /\ after.transitions = before.transitions
             [] m.type = "addTransition" ->
                  /\ Len(after.transitions) = Len(before.transitions) + 1
                  /\ SubSeq(after.transitions, 1, Len(before.transitions)) = before.transitions
                  /\ after.nodes = before.nodes
             [] m.type = "removeNode" ->
                  /\ after.nodes = SelectSeq(before.nodes, otherNode)
                  /\ after.transitions = SelectSeq(before.transitions, unrelated)
             [] m.type = "removeTransition" ->
                  /\ after.nodes = before.nodes
                  /\ after.transitions = SelectSeq(before.transitions, otherTrans)
             [] m.type = "updateNode" ->
                  /\ SameBut(before.nodes, after.nodes, FirstIndex(before.nodes, hasId),
                             DOMAIN p \ {"id"})
                  /\ after.transitions = before.transitions
             [] m.type = "updateTransition" ->
                  /\ SameBut(before.transitions, after.transitions,
                             FirstIndex(before.transitions, matches), DOMAIN p \ {"from", "to"})
                  /\ after.nodes = before.nodes
             [] OTHER -> after = before

\* C25 witness: updateNode n2 has renamed the second of two nodes; the first
\* node, the position of the second and the two transitions are as before.
SecondNodeRenamedOnly ==
  /\ argRef # Null
  /\ LastMutation = [type |-> "updateNode", payload |-> [id |-> IdPool[2], name |-> "Renamed"]]
  /\ Len(argBefore.nodes) = 2
  /\ Len(argBefore.transitions) = 2
  /\ argBefore.nodes[2].name = "Node"
  /\ Deep(heap, updated).nodes[2].name = "Renamed"
  /\ Deep(heap, updated).nodes[2].position = SamplePosition(2)
  /\ Deep(heap, updated).nodes[1] = argBefore.nodes[1]
  /\ Deep(heap, updated).transitions = argBefore.transitions

-----------------------------------------------------------------------------
(***************************************************************************)
(* The vault store, createVaultStore of src/unnamed/part_005, starting     *)
(* from an empty localStorage.  Each action is one call on the store with  *)
(* its persist().  A module is a record; its dictionaries, forms and       *)
(* processes are sequences of artifacts, an artifact being described by    *)
(* the fields the store reads: id and code (category.id and category.code  *)
(* for a dictionary).  new Date().toISOString() is the reading of clock.   *)
(* The text given to importModule is described by what JSON.parse makes of *)
(* it.                                                                     *)
(***************************************************************************)
MaxVaultCalls == 5
MaxModules == 3

\* what generateId() returns, call after call (distinct)
ModuleIdPool == <<"m1", "m2", "m3">>

ModuleIds == {"m1", "m2", "m3", "unknown"}

EmptyVault == [currentModuleId |-> NullString, modules |-> <<>>]

Workflows == {[id |-> "w1", code |-> "c1"], [id |-> "w2", code |-> "c1"], [id |-> "w3", code |-> "c2"]}

Forms == {[id |-> "f1", code |-> "c1"], [id |-> "f2", code |-> "c1"], [id |-> "f3", code |-> "c2"]}

Dictionaries ==
  {[category |-> [id |-> "d1", code |-> "c1"]],
   [category |-> [id |-> "d2", code |-> "c1"]],
   [category |-> [id |-> "d3", code |-> "c2"]]}

ArtifactIds == [dictionary |-> {"d1", "d2"}, form |-> {"f1", "f2"}, workflow |-> {"w1", "w2"}]

ArtifactData ==
  [dictionary |-> {[category |-> [id |-> "d3", code |-> "c2"]]},
   form |-> {[id |-> "f3", code |-> "c2"]},
   workflow |-> {[id |-> "w3", code |-> "c2"]}]

\* texts given to importModule: no JSON, null, a string, a module with two
\* workflows of one code, an object without the artifact lists
ImportTexts ==
  {JInvalid, JNull, JStr("module"),
   JObj([id |-> "m1", name |-> "Imported", code |-> "imported", version |-> "1.0.0",
         dictionaries |-> <<>>, forms |-> <<>>,
         processes |-> <<[id |-> "w1", code |-> "c1"], [id |-> "w2", code |-> "c1"]>>,
         createdAt |-> 0, updatedAt |-> 0]),
   JObj([name |-> "Partial"])}

\* modules.findIndex(m => m.id === id), 0 for -1
ModuleIndex(modules, id) ==
  IF \E i \in 1..Len(modules) : modules[i].id = id
    THEN CHOOSE i \in 1..Len(modules) : modules[i].id = id /\ \A j \in 1..(i - 1) : modules[j].id # id
    ELSE 0

\* getCurrentModule (lines 121-124): the position of the current module, 0 for null
GetCurrentModule(st) ==
  IF st.currentModuleId = NullString \/ st.currentModuleId = "" THEN 0
  ELSE ModuleIndex(st.modules, st.currentModuleId)

ArtifactTypes == {"dictionary", "form", "workflow"}

\* the module's list of a type of artifact
ListOf(type) ==
  IF type = "dictionary" THEN "dictionaries" ELSE IF type = "form" THEN "forms" ELSE "processes"

\* d.category.code of a dictionary, f.code of a form, p.code of a workflow
CodeOf(type, a) == IF type = "dictionary" THEN a.category.code ELSE a.code

\* d.category.id of a dictionary, f.id of a form, p.id of a workflow
IdOf(type, a) == IF type = "dictionary" THEN a.category.id ELSE a.id

\* list.findIndex(a => a.code === code), 0 for -1
FindIndexByCode(type, list, code) ==
  IF \E i \in 1..Len(list) : CodeOf(type, list[i]) = code
    THEN CHOOSE i \in 1..Len(list) :
           CodeOf(type, list[i]) = code /\ \A j \in 1..(i - 1) : CodeOf(type, list[j]) # code
    ELSE 0

\* list.findIndex(a => a.id === id), 0 for -1
FindIndexById(type, list, id) ==
  IF \E i \in 1..Len(list) : IdOf(type, list[i]) = id
    THEN CHOOSE i \in 1..Len(list) :
           IdOf(type, list[i]) = id /\ \A j \in 1..(i - 1) : IdOf(type, list[j]) # id
    ELSE 0

UpsertAlwaysPushes(type, list, artifact) == Append(list, artifact)

\* lines 131-139, 149-155, 165-171: replace where the code is found, else push
Upsert(type, list, artifact) ==
  LET existing == FindIndexByCode(type, list, CodeOf(type, artifact))
  IN  IF existing > 0 THEN [list EXCEPT ![existing] = artifact]
      ELSE Append(list, artifact)

\* lines 183, 186, 189: list.filter(a => a.id !== id)
Without(type, list, id) ==
  LET kept(a) == IdOf(type, a) # id
  IN  SelectSeq(list, kept)

\* lines 203-204, 208-209, 213-214
ReplaceById(type, list, id, data) ==
  LET idx == FindIndexById(type, list, id)
  IN  IF idx > 0 THEN [list EXCEPT ![idx] = data] ELSE list

ReselectKeepsCurrent(modules, current, moduleId) == current

\* lines 115-117: state.modules[0]?.id || null when the current module is deleted
Reselect(modules, current, moduleId) ==
  IF current = moduleId
    THEN (IF Len(modules) > 0 /\ modules[1].id # "" THEN modules[1].id ELSE NullString)
    ELSE current

\* a call is made: history and the clock
Called(call, threw) ==
  /\ clock < MaxVaultCalls
  /\ clock' = clock + 1
  /\ vcall' = call
  /\ vbefore' = vaultState
  /\ vthrew' = threw

\* the state is assigned and persist() writes it
Persisted(st) ==
  /\ vaultState' = st
  /\ stored' = <<st>>

CreateModule ==
  /\ generated < MaxModules
  /\ \E name \in {"Safety"} :
       LET module == [id |-> ModuleIdPool[generated + 1], name |-> name, code |-> "safety",
                      version |-> "1.0.0", description |-> "A module",
                      dictionaries |-> <<>>, forms |-> <<>>, processes |-> <<>>,
                      createdAt |-> clock, updatedAt |-> clock]
       IN  /\ Called([op |-> "createModule", id |-> module.id], FALSE)
           /\ Persisted([currentModuleId |-> module.id,
                         modules |-> Append(vaultState.modules, module)])
           /\ upsertOnly' = upsertOnly \cup {module.id}
  /\ generated' = generated + 1
  /\ UNCHANGED otherThanVault

SelectModule ==
  /\ \E moduleId \in ModuleIds :
       /\ Called([op |-> "selectModule", id |-> moduleId], FALSE)
       /\ IF ModuleIndex(vaultState.modules, moduleId) > 0
            THEN Persisted([vaultState EXCEPT !.currentModuleId = moduleId])
            ELSE UNCHANGED <<vaultState, stored>>
  /\ UNCHANGED <<generated, upsertOnly>>
  /\ UNCHANGED otherThanVault

DeleteModule ==
  /\ \E moduleId \in ModuleIds :
       LET keeps(m) == m.id # moduleId
           modules == SelectSeq(vaultState.modules, keeps)
       IN  /\ Called([op |-> "deleteModule", id |-> moduleId], FALSE)
           /\ Persisted([currentModuleId |-> Reselect(modules, vaultState.currentModuleId, moduleId),
                         modules |-> modules])
  /\ UNCHANGED <<generated, upsertOnly>>
  /\ UNCHANGED otherThanVault

\* lines 231-242; JSON.parse throws on a text that is no JSON, and the
\* assignment of id throws on null and, the module being strict, on a string
ImportModule ==
  /\ generated < MaxModules
  /\ \E json \in ImportTexts :
       IF json.t = "obj"
         THEN LET id == ModuleIdPool[generated + 1]
                  parsed == json.v
                  module == [k \in DOMAIN parsed \cup {"id", "createdAt", "updatedAt"} |->
                               IF k = "id" THEN id
                               ELSE IF k \in {"createdAt", "updatedAt"} THEN clock
                               ELSE parsed[k]]
              IN  /\ Called([op |-> "importModule", id |-> id], FALSE)
                  /\ Persisted([currentModuleId |-> id,
                                modules |-> Append(vaultState.modules, module)])
                  /\ generated' = generated + 1
         ELSE /\ Called([op |-> "importModule", id |-> NullString], TRUE)
              /\ UNCHANGED <<vaultState, stored, generated>>
  /\ UNCHANGED upsertOnly
  /\ UNCHANGED otherThanVault

\* the list of a type in the current module, <<>> when there is none
CurrentList(type) ==
  LET k == GetCurrentModule(vaultState)
  IN  IF k > 0 /\ ListOf(type) \in DOMAIN vaultState.modules[k]
        THEN vaultState.modules[k][ListOf(type)]
        ELSE <<>>

\* the body shared by addDictionary, addForm and addWorkflow and by
\* removeArtifact and updateArtifact: nothing without a current module, a
\* TypeError when the module lacks the list, else the list is replaced,
\* updatedAt is set and the state is persisted
OnCurrentModule(call, changed) ==
  LET k == GetCurrentModule(vaultState)
  IN  IF k = 0
        THEN /\ Called(call, FALSE)
             /\ UNCHANGED <<vaultState, stored>>
      ELSE IF ListOf(call.type) \notin DOMAIN vaultState.modules[k]
        THEN /\ Called(call, TRUE)
             /\ UNCHANGED <<vaultState, stored>>
      ELSE /\ Called(call, FALSE)
           /\ Persisted([vaultState EXCEPT
                           !.modules[k] = [@ EXCEPT ![ListOf(call.type)] = changed,
                                                    !.updatedAt = clock]])

AddDictionary ==
  /\ \E dictionary \in Dictionaries :
       OnCurrentModule([op |-> "addDictionary", type |-> "dictionary", artifact |-> dictionary],
                       Upsert("dictionary", CurrentList("dictionary"), dictionary))
  /\ UNCHANGED <<generated, upsertOnly>>
  /\ UNCHANGED otherThanVault

AddForm ==
  /\ \E form \in Forms :
       OnCurrentModule([op |-> "addForm", type |-> "form", artifact |-> form],
                       Upsert("form", CurrentList("form"), form))
  /\ UNCHANGED <<generated, upsertOnly>>
  /\ UNCHANGED otherThanVault

AddWorkflow ==
  /\ \E wf \in Workflows :
       OnCurrentModule([op |-> "addWorkflow", type |-> "workflow", artifact |-> wf],
                       Upsert("workflow", CurrentList("workflow"), wf))
  /\ UNCHANGED <<generated, upsertOnly>>
  /\ UNCHANGED otherThanVault

RemoveArtifact ==
  /\ \E type \in ArtifactTypes : \E id \in ArtifactIds[type] :
       OnCurrentModule([op |-> "removeArtifact", type |-> type, id |-> id],
                       Without(type, CurrentList(type), id))
  /\ UNCHANGED <<generated, upsertOnly>>
  /\ UNCHANGED otherThanVault

UpdateArtifact ==
  /\ \E type \in ArtifactTypes : \E id \in ArtifactIds[type] : \E data \in ArtifactData[type] :
       OnCurrentModule([op |-> "updateArtifact", type |-> type, id |-> id],
                       ReplaceById(type, CurrentList(type), id, data))
  /\ upsertOnly' = upsertOnly \ {vaultState.currentModuleId}
  /\ UNCHANGED generated
  /\ UNCHANGED otherThanVault

InitVault ==
  /\ LayoutAtRest
  /\ MutationAtRest
  /\ NormalizeAtRest
  /\ XamlAtRest
  /\ UploadAtRest
  /\ vaultState = EmptyVault
  /\ stored = <<>>
  /\ generated = 0
  /\ clock = 0
  /\ vcall = NoCall
  /\ vbefore = EmptyVault
  /\ vthrew = FALSE
  /\ upsertOnly = {}

NextVault ==
  \/ CreateModule
  \/ SelectModule
  \/ DeleteModule
  \/ ImportModule
  \/ AddDictionary
  \/ AddForm
  \/ AddWorkflow
  \/ RemoveArtifact
  \/ UpdateArtifact

SpecVault == InitVault /\ [][NextVault]_vars

-----------------------------------------------------------------------------
(***************************************************************************)
(* Properties of the vault store.                                          *)
(***************************************************************************)
HasModule(st, id) == \E i \in 1..Len(st.modules) : st.modules[i].id = id

\* the modules of a state that a deleteModule(id) leaves, in order
Remaining(st, id) ==
  LET other(m) == m.id # id
  IN  SelectSeq(st.modules, other)

(* C28: from the empty vault, after any sequence of calls currentModuleId  *)
(* is null or the id of a module of the list; selectModule with an unknown *)
(* id changes nothing; deleting the current module selects the first       *)
(* remaining module, or null when none remains.                            *)
SelectionValid ==
  /\ vaultState.currentModuleId = NullString \/ HasModule(vaultState, vaultState.currentModuleId)
  /\ (vcall.op = "selectModule" /\ ~HasModule(vbefore, vcall.id)) =>
       (vaultState = vbefore /\ stored \in {<<>>, <<vbefore>>})
  /\ (vcall.op = "deleteModule" /\ vcall.id = vbefore.currentModuleId) =>
       \A rest \in {Remaining(vbefore, vcall.id)} :
         /\ vaultState.modules = rest
         /\ vaultState.currentModuleId = IF rest = <<>> THEN NullString ELSE rest[1].id

\* the second of two modules was current and is deleted: the first is selected
CurrentDeletedFirstSelected ==
  /\ vcall.op = "deleteModule"
  /\ Len(vbefore.modules) = 2
  /\ vcall.id = vbefore.currentModuleId
  /\ vbefore.modules[2].id = vcall.id
  /\ vaultState.currentModuleId = vbefore.modules[1].id
  /\ Len(vaultState.modules) = 1

UniqueCodes(type, list) ==
  \A i, j \in 1..Len(list) : i # j => CodeOf(type, list[i]) # CodeOf(type, list[j])

UpsertCalls == {"addDictionary", "addForm", "addWorkflow"}

(* C29: in a module created empty and changed by addDictionary, addForm,   *)
(* addWorkflow and removeArtifact only, no two workflows share a code, no  *)
(* two forms share a code and no two dictionaries share a category code;   *)
(* adding an artifact whose code exists replaces the existing one at its   *)
(* place; without a selected module these calls leave the vault unchanged. *)
CodesUniquePerModule ==
  /\ \A i \in 1..Len(vaultState.modules) :
       vaultState.modules[i].id \in upsertOnly =>
         \A type \in ArtifactTypes : UniqueCodes(type, vaultState.modules[i][ListOf(type)])
  /\ (vcall.op \in UpsertCalls /\ vbefore.currentModuleId \in upsertOnly) =>
       \A k \in {GetCurrentModule(vbefore)} :
         \A old \in {vbefore.modules[k][ListOf(vcall.type)]} :
           \A new \in {vaultState.modules[k][ListOf(vcall.type)]} :
             \A e \in 1..Len(old) :
               CodeOf(vcall.type, old[e]) = CodeOf(vcall.type, vcall.artifact) =>
                 /\ Len(new) = Len(old)
                 /\ new[e] = vcall.artifact
                 /\ \A j \in 1..Len(old) : j # e => new[j] = old[j]
  /\ (vcall.op \in UpsertCalls \cup {"removeArtifact"} /\ vbefore.currentModuleId = NullString) =>
       (vaultState = vbefore /\ stored \in {<<>>, <<vbefore>>})

\* a workflow is added whose code the first of two workflows of the module
\* carries under another id: it stands first, the second is as it was
WorkflowReplacedInPlace ==
  /\ vcall.op = "addWorkflow"
  /\ vbefore.currentModuleId \in upsertOnly
  /\ \A k \in {GetCurrentModule(vbefore)} :
       /\ k > 0
       /\ Len(vbefore.modules[k].processes) = 2
       /\ vbefore.modules[k].processes[1].code = vcall.artifact.code
       /\ vbefore.modules[k].processes[1].id # vcall.artifact.id
       /\ vaultState.modules[k].processes = <<vcall.artifact, vbefore.modules[k].processes[2]>>

-----------------------------------------------------------------------------
(***************************************************************************)
(* The workflow uploader, WorkflowUploader of src/unnamed/part_000.  The   *)
(* drop zone and the file input are rendered while the state workflow is   *)
(* null, loading or not; the preview with its clear button is rendered     *)
(* otherwise.  A handleFileUpload call runs to its first await, goes on    *)
(* when file.text() settles and ends when parseXamlWorkflow settles; the   *)
(* calls are kept in uploads with the file's name and the await each one   *)
(* stands at, or how it ended.                                             *)
(***************************************************************************)
MaxUploads == 3

NoFile == "<none>"

DroppedFiles == {NoFile, "flow.xaml", "flow.xml", "notes.txt"}

ChosenFiles == {NoFile, "flow.xaml", "notes.txt"}

ParseFailedMessage == "Failed to parse workflow file. Ensure it's a valid XAML state machine."

WrongFileMessage == "Please upload an XML or XAML file"

\* file.name.endsWith('.xml') || file.name.endsWith('.xaml')
IsXmlName(name) == name \in {"flow.xaml", "flow.xml"}

\* lines 23-27: the call up to await file.text()
HandleFileUpload(file) ==
  /\ Len(uploads) < MaxUploads
  /\ isLoading' = TRUE
  /\ error' = NullString
  /\ uploads' = Append(uploads, [name |-> file, at |-> "text"])
  /\ UNCHANGED <<fileName, shown>>

HandleDrop ==
  /\ shown = <<>>
  /\ \E file \in DroppedFiles :
       IF file # NoFile /\ IsXmlName(file)
         THEN HandleFileUpload(file)
         ELSE /\ error' = WrongFileMessage
              /\ UNCHANGED <<isLoading, fileName, shown, uploads>>
  /\ UNCHANGED otherThanUpload

HandleInputChange ==
  /\ shown = <<>>
  /\ \E file \in ChosenFiles :
       IF file # NoFile
         THEN HandleFileUpload(file)
         ELSE UNCHANGED uploadVars
  /\ UNCHANGED otherThanUpload

\* file.text() resolves: parseXamlWorkflow is called (line 28)
TextResolved ==
  /\ \E u \in 1..Len(uploads) :
       /\ uploads[u].at = "text"
       /\ uploads' = [uploads EXCEPT ![u].at = "parse"]
  /\ UNCHANGED <<isLoading, error, fileName, shown>>
  /\ UNCHANGED otherThanUpload

\* lines 31-36: catch and finally
Caught(u, failed) ==
  /\ error' = ParseFailedMessage
  /\ isLoading' = FALSE
  /\ uploads' = [uploads EXCEPT ![u].at = failed]
  /\ UNCHANGED <<fileName, shown>>

\* file.text() rejects
TextRejected ==
  /\ \E u \in 1..Len(uploads) :
       /\ uploads[u].at = "text"
       /\ Caught(u, "text rejected")
  /\ UNCHANGED otherThanUpload

\* parseXamlWorkflow resolves: lines 29-30 and finally
ParseResolved ==
  /\ \E u \in 1..Len(uploads) :
       /\ uploads[u].at = "parse"
       /\ \E parsed \in ParseXamlOutcomes(TRUE) :
            /\ shown' = <<parsed.workflow>>
            /\ fileName' = uploads[u].name
            /\ isLoading' = FALSE
            /\ uploads' = [uploads EXCEPT ![u].at = "done"]
  /\ UNCHANGED error
  /\ UNCHANGED otherThanUpload

\* parseXamlWorkflow rejects
ParseRejected ==
  /\ \E u \in 1..Len(uploads) :
       /\ uploads[u].at = "parse"
       /\ Caught(u, "parse rejected")
  /\ UNCHANGED otherThanUpload

\* lines 56-60, from the button of the preview
HandleClear ==
  /\ shown # <<>>
  /\ shown' = <<>>
  /\ fileName' = NullString
  /\ error' = NullString
  /\ UNCHANGED <<isLoading, uploads>>
  /\ UNCHANGED otherThanUpload

InitUpload ==
  /\ LayoutAtRest
  /\ MutationAtRest
  /\ NormalizeAtRest
  /\ XamlAtRest
  /\ VaultAtRest
  /\ isLoading = FALSE
  /\ error = NullString
  /\ fileName = NullString
  /\ shown = <<>>
  /\ uploads = <<>>

NextUpload ==
  \/ HandleDrop
  \/ HandleInputChange
  \/ TextResolved
  \/ TextRejected
  \/ ParseResolved
  \/ ParseRejected
  \/ HandleClear

SpecUpload == InitUpload /\ [][NextUpload]_vars

-----------------------------------------------------------------------------
(***************************************************************************)
(* Properties of the uploader.                                             *)
(***************************************************************************)
\* the upload is being read or parsed
InFlight(u) == uploads[u].at \in {"text", "parse"}

====
